---- MODULE Spec2Model ----
(***************************************************************************)
(* Model of the Kustomer agent-performance export.  The team-aware script  *)
(* (src/unnamed/part_000) folds five event streams, one loop after the     *)
(* other, into the accumulator map `stats` and then writes one report row   *)
(* per accumulator.  An event is a Python dict; here it is a record whose   *)
(* fields are the keys the script reads, a key the dict does not hold being *)
(* the value Absent and a JSON null the value None.                         *)
(***************************************************************************)
EXTENDS Integers, Sequences, FiniteSets, TLC

\* ------------------------------------------------------------------ bounds
\* Number of events read over all five streams of one run.
MaxEvents == 2

\* ------------------------------------------------------- Python values
\* A key that is missing from a dict, and JSON null.
Absent == "<absent>"
None == "<none>"
PyTrue == "True"
PyFalse == "False"
\* A list-valued key that is missing from the dict.
AbsentList == <<Absent>>
\* A relationship object that is present but holds no "data" object (or a
\* null one): subscripting it raises KeyError / TypeError.
NoData == "<nodata>"

\* dict.get(key): a missing key reads as None.
Get(x) == IF x = Absent THEN None ELSE x

\* Truth value of a string / bool / None.
Truthy(x) == x \notin {Absent, None, "", PyFalse}

\* Python's `a or b`.
Or(a, b) == IF Truthy(a) THEN a ELSE b

\* Optional numbers: t is "num" (n is the number), "str" (a non-numeric,
\* non-empty string), "none" (null) or "absent" (no such key).
Num(n) == [t |-> "num", n |-> n]
StrV == [t |-> "str", n |-> 0]
NoneV == [t |-> "none", n |-> 0]
AbsentV == [t |-> "absent", n |-> 0]

GetV(x) == IF x.t = "absent" THEN NoneV ELSE x
OrV(a, b) ==
  LET
      TruthyV(x) == (x.t = "num" /\ x.n # 0) \/ x.t = "str"
  IN IF TruthyV(a) THEN a ELSE b
\* isinstance(x, (int, float))
IsNumber(x) == x.t = "num"

\* Truth value of a list-valued key read with .get().
TruthyL(l) == l # AbsentList /\ Len(l) > 0

\* ----------------------------------------------------------- directory
UserIds == {"a1", "a2"}
TeamIds == {"t1", "t2"}
\* An id the directory does not hold (a deleted agent, a bot).
Unknown == "zz"

\* ------------------------------------------------------- attribution
NoOwner == [id |-> None, kind |-> None, raised |-> FALSE]
Raised == [id |-> None, kind |-> None, raised |-> TRUE]
Owner(id, kind) == [id |-> id, kind |-> kind, raised |-> FALSE]

\* The owner fields of an item: relationships.createdBy.data.id, createdBy,
\* relationships.createdByTeams.data (the ids of its entries), createdByTeams.
Item(rel, flat, relTeams, teams) ==
  [relCreatedBy |-> rel, createdBy |-> flat,
   relCreatedByTeams |-> relTeams, createdByTeams |-> teams]

\* Mutant: the teams are tried before the agent.
get_team_or_agent_id(item) ==
  IF item.relCreatedByTeams # AbsentList /\ Len(item.relCreatedByTeams) > 0
  THEN Owner(item.relCreatedByTeams[1], "team")
  ELSE IF item.createdByTeams # AbsentList /\ Len(item.createdByTeams) > 0
  THEN Owner(item.createdByTeams[1], "team")
  ELSE IF item.relCreatedBy # Absent
  THEN IF item.relCreatedBy = NoData
       THEN Raised
       ELSE Owner(item.relCreatedBy, "user")
  ELSE IF item.createdBy # Absent
  THEN Owner(item.createdBy, "user")
  ELSE NoOwner

get_agent_or_team_id(item) ==
  IF item.relCreatedBy # Absent
  THEN IF item.relCreatedBy = NoData
       THEN Raised
       ELSE Owner(item.relCreatedBy, "user")
  ELSE IF item.createdBy # Absent
  THEN Owner(item.createdBy, "user")
  ELSE IF item.relCreatedByTeams # AbsentList
  THEN IF Len(item.relCreatedByTeams) > 0
       THEN Owner(item.relCreatedByTeams[1], "team")
       ELSE NoOwner
  ELSE IF item.createdByTeams # AbsentList
  THEN IF Len(item.createdByTeams) > 0
       THEN Owner(item.createdByTeams[1], "team")
       ELSE NoOwner
  ELSE NoOwner

\* ------------------------------------------------------- metric buckets
\* The default bucket of the defaultdict `stats`.
DefaultStats ==
  [msgs |-> 0, conv |-> {}, cust |-> {}, conv_done |-> 0,
   handle_times |-> <<>>, resp_times |-> <<>>, first_resp_times |-> <<>>,
   first_resolution_times |-> <<>>, shortcuts |-> 0, fcr_hits |-> 0,
   fcr_total |-> 0, login |-> 0, type |-> "user"]

\* stats[id] of a defaultdict: the bucket, created on first access.
Bucket(st, id) == IF id \in DOMAIN st THEN st[id] ELSE DefaultStats

Put(st, id, s) == [k \in DOMAIN st \cup {id} |-> IF k = id THEN s ELSE st[k]]

\* The result of one loop iteration: the map after it, and whether the
\* iteration raised (which ends the script).
Folded(st) == [stats |-> st, raised |-> FALSE]
Aborted(st) == [stats |-> st, raised |-> TRUE]

\* Mutant: only agents are looked up in the directory.
InUserDirectoryOnly(o, um, tm) == ~(o.kind = "user" /\ o.id \notin um)

\* `if agent_type == "user" and agent_id not in user_map: continue` and the
\* same for teams.
InDirectory(o, um, tm) ==
  /\ ~(o.kind = "user" /\ o.id \notin um)
  /\ ~(o.kind = "team" /\ o.id \notin tm)

\* ------------------------------------------------------- message loop
MsgDirection(m) == Or(Get(m.direction), Get(m.attr_direction))
MsgAuto(m) == IF m.auto # Absent THEN m.auto ELSE Get(m.attr_auto)
MsgConvId(m) == Or(Get(m.conversationId), Get(m.relConversation))
MsgCustId(m) == Or(Get(m.customerId), Get(m.relCustomer))
MsgRespBt(m) ==
  OrV(GetV(m.responseBusinessTime), GetV(m.attr_responseBusinessTime))
MsgShortcuts(m) ==
  LET
      OrL(a, b) == IF TruthyL(a) THEN a ELSE b
  IN OrL(OrL(m.shortcuts, m.attr_shortcuts), m.attr_shortcutIds)

\* Mutant: the message is counted inside `if conv_id:`.
MsgBucketInConv(s, o, m) ==
  [s EXCEPT
     !.type = o.kind,
     !.msgs = IF Truthy(MsgConvId(m)) THEN @ + 1 ELSE @,
     !.conv = IF Truthy(MsgConvId(m)) THEN @ \cup {MsgConvId(m)} ELSE @,
     !.cust = IF Truthy(MsgCustId(m)) THEN @ \cup {MsgCustId(m)} ELSE @,
     !.resp_times = IF IsNumber(MsgRespBt(m))
                    THEN Append(@, MsgRespBt(m).n) ELSE @,
     !.shortcuts = IF TruthyL(MsgShortcuts(m)) THEN @ + 1 ELSE @]

\* Mutant: a response time that is not a number ends the iteration right
\* after the bucket was fetched.
MsgBucketNumericOnly(s, o, m) ==
  IF MsgRespBt(m).t = "str"
  THEN [s EXCEPT !.type = o.kind]
  ELSE [s EXCEPT
          !.type = o.kind,
          !.msgs = @ + 1,
          !.conv = IF Truthy(MsgConvId(m)) THEN @ \cup {MsgConvId(m)} ELSE @,
          !.cust = IF Truthy(MsgCustId(m)) THEN @ \cup {MsgCustId(m)} ELSE @,
          !.resp_times = IF IsNumber(MsgRespBt(m))
                         THEN Append(@, MsgRespBt(m).n) ELSE @,
          !.shortcuts = IF TruthyL(MsgShortcuts(m)) THEN @ + 1 ELSE @]

MsgBucket(s, o, m) ==
  [s EXCEPT
     !.type = o.kind,
     !.msgs = @ + 1,
     !.conv = IF Truthy(MsgConvId(m)) THEN @ \cup {MsgConvId(m)} ELSE @,
     !.cust = IF Truthy(MsgCustId(m)) THEN @ \cup {MsgCustId(m)} ELSE @,
     !.resp_times = IF IsNumber(MsgRespBt(m))
                    THEN Append(@, MsgRespBt(m).n) ELSE @,
     !.shortcuts = IF TruthyL(MsgShortcuts(m)) THEN @ + 1 ELSE @]

\* Mutant: the loop filters on the direction only.
ProcessMessageAnyAuto(st, um, tm, m) ==
  IF MsgDirection(m) # "out"
  THEN Folded(st)
  ELSE LET o == get_agent_or_team_id(m.owner)
       IN IF o.raised THEN Aborted(st)
          ELSE IF ~Truthy(o.id) THEN Folded(st)
          ELSE IF ~InDirectory(o, um, tm) THEN Folded(st)
          ELSE Folded(Put(st, o.id, MsgBucket(Bucket(st, o.id), o, m)))

ProcessMessage(st, um, tm, m) ==
  IF MsgDirection(m) # "out" \/ Truthy(MsgAuto(m))
  THEN Folded(st)
  ELSE LET o == get_agent_or_team_id(m.owner)
       IN IF o.raised THEN Aborted(st)
          ELSE IF ~Truthy(o.id) THEN Folded(st)
          ELSE IF ~InDirectory(o, um, tm) THEN Folded(st)
          ELSE Folded(Put(st, o.id, MsgBucket(Bucket(st, o.id), o, m)))

\* ------------------------------------------------ conversations done loop
\* c.get("messageCount", 0) <= 0 raises TypeError on a null or a string.
CountRaises(x) == x.t \in {"none", "str"}
CountOrZero(x) == IF x.t = "absent" THEN 0 ELSE x.n

\* `get_agent_or_team_id({...}) if x.get("createdBy") else (None, None)`
OwnerOfCreatedBy(id) ==
  LET
      \* The item the loops build around lastDone.createdBy / firstResponse.createdBy.
      CreatedByItem == Item(id, Absent, AbsentList, AbsentList)
  IN IF Truthy(id) THEN get_agent_or_team_id(CreatedByItem) ELSE NoOwner

\* Mutant: the loop filters on the deleted flag only.
ProcessConvDoneAnyCount(st, um, tm, c) ==
  IF Truthy(c.deleted) THEN Folded(st)
  ELSE IF c.lastDone_createdBy = NoData THEN Aborted(st)
  ELSE LET o == OwnerOfCreatedBy(c.lastDone_createdBy)
       IN IF ~Truthy(o.id) THEN Folded(st)
          ELSE IF ~InDirectory(o, um, tm) THEN Folded(st)
          ELSE Folded(Put(st, o.id,
                 [Bucket(st, o.id) EXCEPT !.type = o.kind,
                                          !.conv_done = @ + 1]))

ProcessConvDone(st, um, tm, c) ==
  IF Truthy(c.deleted) THEN Folded(st)
  ELSE IF CountRaises(c.messageCount) THEN Aborted(st)
  ELSE IF CountOrZero(c.messageCount) <= 0 THEN Folded(st)
  ELSE IF c.lastDone_createdBy = NoData THEN Aborted(st)
  ELSE LET o == OwnerOfCreatedBy(c.lastDone_createdBy)
       IN IF ~Truthy(o.id) THEN Folded(st)
          ELSE IF ~InDirectory(o, um, tm) THEN Folded(st)
          ELSE Folded(Put(st, o.id,
                 [Bucket(st, o.id) EXCEPT !.type = o.kind,
                                          !.conv_done = @ + 1]))

\* ------------------------------------------------ conversation times loop
CtHandleTime(ct) == OrV(GetV(ct.handleTime), GetV(ct.attr_handleTime))

\* Mutant: the bucket is fetched before the handle time is tested.
ProcessConvTimeEager(st, um, tm, ct) ==
  LET o == get_agent_or_team_id(ct.owner)
  IN IF o.raised THEN Aborted(st)
     ELSE IF ~Truthy(o.id) THEN Folded(st)
     ELSE IF ~InDirectory(o, um, tm) THEN Folded(st)
     ELSE Folded(Put(st, o.id,
            [Bucket(st, o.id) EXCEPT
               !.type = o.kind,
               !.handle_times = IF IsNumber(CtHandleTime(ct))
                                THEN Append(@, CtHandleTime(ct).n) ELSE @]))

ProcessConvTime(st, um, tm, ct) ==
  LET o == get_agent_or_team_id(ct.owner)
  IN IF o.raised THEN Aborted(st)
     ELSE IF ~Truthy(o.id) THEN Folded(st)
     ELSE IF ~InDirectory(o, um, tm) THEN Folded(st)
     ELSE IF IsNumber(CtHandleTime(ct))
     THEN Folded(Put(st, o.id,
            [Bucket(st, o.id) EXCEPT
               !.type = o.kind,
               !.handle_times = Append(@, CtHandleTime(ct).n)]))
     ELSE Folded(st)

\* ------------------------------------------- first contact resolution loop
\* A firstDone object: keys is whether the dict holds any key at all (an
\* empty or missing dict is falsy).
FirstDone(by, teams, bt) ==
  [keys |-> TRUE, createdBy |-> by, createdByTeams |-> teams,
   businessTime |-> bt]
NoFirstDone ==
  [keys |-> FALSE, createdBy |-> Absent, createdByTeams |-> AbsentList,
   businessTime |-> AbsentV]

FcrFirstDone(c) ==
  LET
      FcrFirstDoneBy == Or(Get(c.firstDoneBy), Get(c.attr_firstDoneBy))
  IN IF c.firstDone.keys THEN c.firstDone
     ELSE IF c.attr_firstDone.keys THEN c.attr_firstDone
     ELSE IF Truthy(FcrFirstDoneBy)
     THEN FirstDone(FcrFirstDoneBy, AbsentList, AbsentV)
     ELSE NoFirstDone

FcrOwner(fd) ==
  IF Truthy(fd.createdBy) THEN Owner(fd.createdBy, "user")
  ELSE IF TruthyL(fd.createdByTeams)
  THEN Owner(fd.createdByTeams[1], "team")
  ELSE NoOwner

FcrStatus(c) == Or(Get(c.status), Get(c.attr_status))
FcrDirection(c) == Or(Get(c.direction), Get(c.attr_direction))
\* c.get("messageCount") or c.get("attributes", {}).get("messageCount", 0)
FcrMessageCount(c) ==
  OrV(GetV(c.messageCount),
      IF c.attr_messageCount.t = "absent" THEN Num(0)
      ELSE c.attr_messageCount)
FcrReopenCount(c) ==
  OrV(GetV(c.reopenCount),
      IF c.attr_reopenCount.t = "absent" THEN Num(0) ELSE c.attr_reopenCount)
FcrMergedTarget(c) == Or(Get(c.mergedTarget), Get(c.attr_mergedTarget))

\* Mutant: the FCR test without the reopen count.
FcrCriteriaAnyReopen(c) ==
  IF FcrStatus(c) # "done" THEN "miss"
  ELSE IF FcrDirection(c) # "in" THEN "miss"
  ELSE IF ~IsNumber(FcrMessageCount(c)) THEN "raise"
  ELSE IF ~(FcrMessageCount(c).n > 0) THEN "miss"
  ELSE IF Truthy(FcrMergedTarget(c)) THEN "miss"
  ELSE "hit"

\* The `and` chain of the FCR test, left to right: "hit", "miss", or "raise"
\* when a comparison meets a value that is not a number.
FcrCriteria(c) ==
  IF FcrStatus(c) # "done" THEN "miss"
  ELSE IF FcrDirection(c) # "in" THEN "miss"
  ELSE IF ~IsNumber(FcrMessageCount(c)) THEN "raise"
  ELSE IF ~(FcrMessageCount(c).n > 0) THEN "miss"
  ELSE IF ~IsNumber(FcrReopenCount(c)) THEN "raise"
  ELSE IF ~(FcrReopenCount(c).n <= 0) THEN "miss"
  ELSE IF Truthy(FcrMergedTarget(c)) THEN "miss"
  ELSE "hit"

\* Mutant: fcr_total is counted in the else branch of the FCR test, so a
\* hit is not counted as eligible.
ProcessFirstDoneTotalOnMiss(st, um, tm, c) ==
  LET fd == FcrFirstDone(c)
      o == FcrOwner(fd)
      s1 == [Bucket(st, o.id) EXCEPT !.type = o.kind]
      s2 == IF FcrCriteria(c) = "hit"
            THEN [s1 EXCEPT !.fcr_hits = @ + 1]
            ELSE [s1 EXCEPT !.fcr_total = @ + 1]
      s3 == IF IsNumber(fd.businessTime)
            THEN [s2 EXCEPT !.first_resolution_times =
                                Append(@, fd.businessTime.n)]
            ELSE s2
  IN IF ~fd.keys THEN Folded(st)
     ELSE IF ~Truthy(o.id) THEN Folded(st)
     ELSE IF ~InDirectory(o, um, tm) THEN Folded(st)
     ELSE IF FcrCriteria(c) = "raise" THEN Aborted(Put(st, o.id, s1))
     ELSE Folded(Put(st, o.id, s3))

ProcessFirstDone(st, um, tm, c) ==
  LET fd == FcrFirstDone(c)
      o == FcrOwner(fd)
      s1 == [Bucket(st, o.id) EXCEPT !.type = o.kind, !.fcr_total = @ + 1]
      s2 == IF FcrCriteria(c) = "hit"
            THEN [s1 EXCEPT !.fcr_hits = @ + 1] ELSE s1
      s3 == IF IsNumber(fd.businessTime)
            THEN [s2 EXCEPT !.first_resolution_times =
                                Append(@, fd.businessTime.n)]
            ELSE s2
  IN IF ~fd.keys THEN Folded(st)
     ELSE IF ~Truthy(o.id) THEN Folded(st)
     ELSE IF ~InDirectory(o, um, tm) THEN Folded(st)
     ELSE IF FcrCriteria(c) = "raise" THEN Aborted(Put(st, o.id, s1))
     ELSE Folded(Put(st, o.id, s3))

\* ------------------------------------------------ first response loop
ProcessFirstResponse(st, um, tm, c) ==
  IF Truthy(c.deleted) THEN Folded(st)
  ELSE IF CountRaises(c.messageCount) THEN Aborted(st)
  ELSE IF CountOrZero(c.messageCount) <= 0 THEN Folded(st)
  ELSE IF ~c.firstResponse.keys THEN Folded(st)
  ELSE LET o == OwnerOfCreatedBy(c.firstResponse.createdBy)
       IN IF ~Truthy(o.id) THEN Folded(st)
          ELSE IF ~InDirectory(o, um, tm) THEN Folded(st)
          ELSE IF IsNumber(c.firstResponse.businessTime)
          THEN Folded(Put(st, o.id,
                 [Bucket(st, o.id) EXCEPT
                    !.type = o.kind,
                    !.first_resp_times =
                        Append(@, c.firstResponse.businessTime.n)]))
          ELSE Folded(st)

\* ------------------------------------------------------------ export csv
\* A report cell: a number in hundredths, or the exception the expression
\* raised (ZeroDivisionError, StatisticsError).
Val(v) == [ok |-> TRUE, v |-> v]
Err == [ok |-> FALSE, v |-> 0]

RECURSIVE Sum(_)
Sum(xs) == IF xs = <<>> THEN 0 ELSE Head(xs) + Sum(Tail(xs))

\* round(num / den, 2) in hundredths (ties to even), for num >= 0, den > 0.
Round2(num, den) ==
  LET q == (num * 100) \div den
      r == (num * 100) % den
  IN IF 2 * r > den \/ (2 * r = den /\ q % 2 = 1) THEN q + 1 ELSE q

\* round(a / b, 2) and round(a / b * 100, 2)
Ratio(a, b) == IF b = 0 THEN Err ELSE Val(Round2(a, b))
Percent(a, b) == IF b = 0 THEN Err ELSE Val(Round2(a * 100, b))

\* round(mean(xs), 2), round(median(xs), 2)
Mean(xs) == IF Len(xs) = 0 THEN Err ELSE Val(Round2(Sum(xs), Len(xs)))
Median(xs) ==
  LET ss == SortSeq(xs, LAMBDA a, b : a < b)
      k == Len(xs)
  IN IF k = 0 THEN Err
     ELSE IF k % 2 = 1 THEN Val(Round2(ss[(k + 1) \div 2], 1))
     ELSE Val(Round2(ss[k \div 2] + ss[k \div 2 + 1], 2))

\* `x if cond else 0`
IfElse0(cond, x) == IF cond THEN x ELSE Val(0)

\* Mutant: the rate without its `if s["fcr_total"] else 0`.
FcrRateUnguarded(s) == Percent(s.fcr_hits, s.fcr_total)
FcrRate(s) == IfElse0(s.fcr_total # 0, Percent(s.fcr_hits, s.fcr_total))

\* Mutant: the conversations and customers are kept in lists, so the row
\* reports one per message.
RowOfLists(id, s) ==
  LET
      AvgHandleTime == IfElse0(Len(s.handle_times) > 0, Mean(s.handle_times))
      MsgsPerConv ==
        IfElse0(Cardinality(s.conv) # 0, Ratio(s.msgs, Cardinality(s.conv)))
      MsgsPerCust ==
        IfElse0(Cardinality(s.cust) # 0, Ratio(s.msgs, Cardinality(s.cust)))
      AvgRespTime == IfElse0(Len(s.resp_times) > 0, Mean(s.resp_times))
      AvgFirstResp ==
        IfElse0(Len(s.first_resp_times) > 0, Mean(s.first_resp_times))
      MedFirstResp ==
        IfElse0(Len(s.first_resp_times) > 0, Median(s.first_resp_times))
      AvgFirstRes ==
        IfElse0(Len(s.first_resolution_times) > 0, Mean(s.first_resolution_times))
      MedFirstRes ==
        IfElse0(Len(s.first_resolution_times) > 0,
                Median(s.first_resolution_times))
      ShortcutPct == IfElse0(s.msgs # 0, Percent(s.shortcuts, s.msgs))
  IN [name |-> id, type |-> s.type, msgs |-> s.msgs,
      conv_ct |-> s.msgs, conv_done |-> s.conv_done,
      cust_ct |-> s.msgs,
      avg_handle_time |-> AvgHandleTime,
      msgs_per_conv |-> MsgsPerConv, msgs_per_cust |-> MsgsPerCust,
      fcr_rate |-> FcrRate(s), avg_resp |-> AvgRespTime,
      avg_first_resp |-> AvgFirstResp, med_first_resp |-> MedFirstResp,
      avg_first_res |-> AvgFirstRes, med_first_res |-> MedFirstRes,
      login |-> Val(s.login * 100), shortcuts |-> s.shortcuts,
      shortcut_pct |-> ShortcutPct]

\* The row `wr` of one accumulator.
Row(id, s) ==
  LET
      AvgHandleTime == IfElse0(Len(s.handle_times) > 0, Mean(s.handle_times))
      MsgsPerConv ==
        IfElse0(Cardinality(s.conv) # 0, Ratio(s.msgs, Cardinality(s.conv)))
      MsgsPerCust ==
        IfElse0(Cardinality(s.cust) # 0, Ratio(s.msgs, Cardinality(s.cust)))
      AvgRespTime == IfElse0(Len(s.resp_times) > 0, Mean(s.resp_times))
      AvgFirstResp ==
        IfElse0(Len(s.first_resp_times) > 0, Mean(s.first_resp_times))
      MedFirstResp ==
        IfElse0(Len(s.first_resp_times) > 0, Median(s.first_resp_times))
      AvgFirstRes ==
        IfElse0(Len(s.first_resolution_times) > 0, Mean(s.first_resolution_times))
      MedFirstRes ==
        IfElse0(Len(s.first_resolution_times) > 0,
                Median(s.first_resolution_times))
      ShortcutPct == IfElse0(s.msgs # 0, Percent(s.shortcuts, s.msgs))
  IN [name |-> id, type |-> s.type, msgs |-> s.msgs,
      conv_ct |-> Cardinality(s.conv), conv_done |-> s.conv_done,
      cust_ct |-> Cardinality(s.cust),
      avg_handle_time |-> AvgHandleTime,
      msgs_per_conv |-> MsgsPerConv, msgs_per_cust |-> MsgsPerCust,
      fcr_rate |-> FcrRate(s), avg_resp |-> AvgRespTime,
      avg_first_resp |-> AvgFirstResp, med_first_resp |-> MedFirstResp,
      avg_first_res |-> AvgFirstRes, med_first_res |-> MedFirstRes,
      login |-> Val(s.login * 100), shortcuts |-> s.shortcuts,
      shortcut_pct |-> ShortcutPct]

RowRaises(r) ==
  LET
      \* The cells of a row that are computed by a division, a mean or a median.
      Computed ==
        {r.avg_handle_time, r.msgs_per_conv, r.msgs_per_cust, r.fcr_rate,
         r.avg_resp, r.avg_first_resp, r.med_first_resp, r.avg_first_res,
         r.med_first_res, r.login, r.shortcut_pct}
  IN \E cell \in Computed : ~cell.ok

\* ------------------------------------------------------- event inputs
Owners ==
  LET
      \* Owner fields of messages and conversation-time entries.
      AgentOwners ==
        {Item("a1", Absent, AbsentList, AbsentList),
         Item(Absent, "a2", AbsentList, AbsentList),
         Item("a2", "a1", AbsentList, AbsentList)}
      TeamOwners ==
        {Item(Absent, Absent, <<"t1", "t2">>, AbsentList),
         Item(Absent, Absent, AbsentList, <<"t2", "t1">>),
         Item(Absent, Absent, AbsentList, <<"a1">>)}
      BothOwners ==
        {Item("a1", Absent, <<"t1">>, AbsentList),
         Item(Absent, "a2", AbsentList, <<"t1">>),
         Item(Unknown, Absent, AbsentList, <<"t2">>)}
      NullAgentOwners ==
        {Item(None, Absent, <<"t1">>, AbsentList),
         Item(Absent, "", AbsentList, <<"t2", "t1">>)}
      OtherOwners ==
        {Item(Unknown, Absent, AbsentList, AbsentList),
         Item(Absent, Absent, AbsentList, AbsentList),
         Item(Absent, Absent, <<>>, <<"t1">>),
         Item(Absent, Absent, <<"tz">>, AbsentList),
         Item(NoData, Absent, AbsentList, AbsentList)}
  IN AgentOwners \cup TeamOwners \cup BothOwners \cup NullAgentOwners
       \cup OtherOwners

\* direction / attributes.direction / auto / attributes.auto
DirAuto(d, ad, a, aa) ==
  [direction |-> d, attr_direction |-> ad, auto |-> a, attr_auto |-> aa]

Payload(cv, rcv, cu, rcu, bt, abt, sc, asc, asi) ==
  [conversationId |-> cv, relConversation |-> rcv, customerId |-> cu,
   relCustomer |-> rcu, responseBusinessTime |-> bt,
   attr_responseBusinessTime |-> abt, shortcuts |-> sc,
   attr_shortcuts |-> asc, attr_shortcutIds |-> asi]
FullPayload ==
  Payload("c1", Absent, "u1", Absent, Num(5), AbsentV, <<"s1">>,
          AbsentList, AbsentList)

\* The conversation records the script fetched, as customer id by
\* conversation id: c1 belongs to customer u1, c2 was not fetched.
ConvLookup == [c \in {"c1"} |-> "u1"]

Message(da, o, p) ==
  [direction |-> da.direction, attr_direction |-> da.attr_direction,
   auto |-> da.auto, attr_auto |-> da.attr_auto, owner |-> o,
   conversationId |-> p.conversationId,
   relConversation |-> p.relConversation, customerId |-> p.customerId,
   relCustomer |-> p.relCustomer,
   responseBusinessTime |-> p.responseBusinessTime,
   attr_responseBusinessTime |-> p.attr_responseBusinessTime,
   shortcuts |-> p.shortcuts, attr_shortcuts |-> p.attr_shortcuts,
   attr_shortcutIds |-> p.attr_shortcutIds]

PayloadOwners ==
  {Item("a1", Absent, AbsentList, AbsentList),
   Item(Absent, "a2", AbsentList, AbsentList),
   Item(Absent, Absent, <<"t1", "t2">>, AbsentList)}
Messages ==
  LET
      \* Every owner shape on a plain outbound message; every direction / auto
      \* shape on four owners; every payload on three owners.
      PlainOut == DirAuto("out", Absent, Absent, Absent)
      OutboundHuman ==
        {DirAuto("out", Absent, Absent, Absent),
         DirAuto(Absent, "out", PyFalse, Absent),
         DirAuto("out", Absent, PyFalse, PyTrue)}
      NotOutboundHuman ==
        {DirAuto("in", "out", Absent, Absent),
         DirAuto(Absent, Absent, Absent, Absent),
         DirAuto("out", Absent, PyTrue, Absent),
         DirAuto("out", Absent, Absent, PyTrue)}
      SomeOwners ==
        {Item("a1", Absent, AbsentList, AbsentList),
         Item(Absent, Absent, <<"t1", "t2">>, AbsentList),
         Item("a1", Absent, <<"t1">>, AbsentList),
         Item(Unknown, Absent, AbsentList, AbsentList)}
      Payloads ==
        {FullPayload,
         Payload(Absent, "c1", Absent, "u1", AbsentV, AbsentV, AbsentList,
                 AbsentList, AbsentList),
         Payload("c2", Absent, "u1", Absent, Num(0), AbsentV, <<>>, AbsentList,
                 <<"s1">>),
         Payload(Absent, Absent, Absent, Absent, StrV, AbsentV, AbsentList,
                 AbsentList, AbsentList),
         Payload("", "c2", None, "u2", Num(0), Num(0), AbsentList, <<"s1">>,
                 AbsentList),
         Payload("c2", Absent, Absent, "u2", AbsentV, Num(7), AbsentList,
                 AbsentList, AbsentList),
         Payload("c1", Absent, "u1", Absent, StrV, AbsentV, <<"s1">>, AbsentList,
                 AbsentList),
         Payload("c1", Absent, Absent, Absent, Num(5), AbsentV, AbsentList,
                 AbsentList, AbsentList)}
  IN {Message(PlainOut, o, FullPayload) : o \in Owners}
     \cup
     {Message(da, o, FullPayload) :
        da \in OutboundHuman \cup NotOutboundHuman, o \in SomeOwners}
     \cup
     {Message(PlainOut, o, p) : o \in PayloadOwners, p \in Payloads}

\* lastDone_createdBy is NoData when the lastDone key holds null: then
\* `c.get("lastDone", {})` is None and `last_done.get` raises.
ConvDone(del, mc, by, ht) ==
  [deleted |-> del, messageCount |-> mc, lastDone_createdBy |-> by,
   handleTime |-> ht]
ConvDones ==
  LET
      LastDoneBys == {Absent, None, "a1", "a2", "t1", Unknown, NoData}
  IN {ConvDone(del, mc, by, Num(5)) :
        del \in {Absent, PyTrue}, mc \in {AbsentV, NoneV, Num(0), Num(2)},
        by \in {"a1", Unknown}}
     \cup {ConvDone(Absent, Num(2), by, Num(5)) : by \in LastDoneBys}
     \cup {ConvDone(PyFalse, Num(1), by, AbsentV) : by \in {"a1", "a2"}}

ConvTime(o, ht, aht) ==
  [owner |-> o, handleTime |-> ht, attr_handleTime |-> aht]
ConvTimes ==
  LET
      \* Owner fields of messages and conversation-time entries.
      AgentOwners ==
        {Item("a1", Absent, AbsentList, AbsentList),
         Item(Absent, "a2", AbsentList, AbsentList),
         Item("a2", "a1", AbsentList, AbsentList)}
      TeamOwners ==
        {Item(Absent, Absent, <<"t1", "t2">>, AbsentList),
         Item(Absent, Absent, AbsentList, <<"t2", "t1">>),
         Item(Absent, Absent, AbsentList, <<"a1">>)}
      ConvTimeOwners ==
        AgentOwners \cup TeamOwners \cup
        {Item("a1", Absent, <<"t1">>, AbsentList),
         Item(None, Absent, <<"t1">>, AbsentList),
         Item(Unknown, Absent, AbsentList, AbsentList),
         Item(Absent, Absent, AbsentList, AbsentList),
         Item(NoData, Absent, AbsentList, AbsentList)}
  IN {ConvTime(o, Num(5), AbsentV) : o \in ConvTimeOwners}
     \cup
     {ConvTime(o, h[1], h[2]) :
        o \in {Item("a1", Absent, AbsentList, AbsentList),
               Item(Absent, Absent, <<"t1", "t2">>, AbsentList)},
        h \in {<<Num(5), AbsentV>>, <<AbsentV, Num(7)>>, <<Num(0), AbsentV>>,
               <<StrV, AbsentV>>, <<AbsentV, AbsentV>>}}

\* Where a first-done conversation names who closed it.
FdSource(fd, afd, by, aby) ==
  [firstDone |-> fd, attr_firstDone |-> afd, firstDoneBy |-> by,
   attr_firstDoneBy |-> aby]

Criteria(st, ast, d, ad, mc, amc, rc, arc, mt, amt) ==
  [status |-> st, attr_status |-> ast, direction |-> d,
   attr_direction |-> ad, messageCount |-> mc, attr_messageCount |-> amc,
   reopenCount |-> rc, attr_reopenCount |-> arc, mergedTarget |-> mt,
   attr_mergedTarget |-> amt]
Hit ==
  Criteria("done", Absent, "in", Absent, Num(2), AbsentV, AbsentV, AbsentV,
           Absent, Absent)
StillOpen ==
  Criteria("open", Absent, "in", Absent, Num(2), AbsentV, AbsentV, AbsentV,
           Absent, Absent)

FirstDoneConv(src, k) ==
  [firstDone |-> src.firstDone, attr_firstDone |-> src.attr_firstDone,
   firstDoneBy |-> src.firstDoneBy, attr_firstDoneBy |-> src.attr_firstDoneBy,
   status |-> k.status, attr_status |-> k.attr_status,
   direction |-> k.direction, attr_direction |-> k.attr_direction,
   messageCount |-> k.messageCount,
   attr_messageCount |-> k.attr_messageCount,
   reopenCount |-> k.reopenCount, attr_reopenCount |-> k.attr_reopenCount,
   mergedTarget |-> k.mergedTarget, attr_mergedTarget |-> k.attr_mergedTarget]
\* Every source with a hit and a miss; every criteria shape on an agent and
\* on a team.
FirstDoneConvs ==
  LET
      FdSources ==
        {FdSource(FirstDone("a1", AbsentList, Num(30)), NoFirstDone, Absent, Absent),
         FdSource(NoFirstDone, FirstDone("a2", AbsentList, AbsentV), Absent, Absent),
         FdSource(NoFirstDone, NoFirstDone, "a1", Absent),
         FdSource(NoFirstDone, NoFirstDone, Absent, "a2"),
         FdSource(FirstDone(Absent, <<"t1", "t2">>, Num(40)), NoFirstDone, Absent,
                  Absent),
         FdSource(FirstDone("a1", <<"t1">>, StrV), NoFirstDone, Absent, Absent),
         FdSource(FirstDone(Unknown, AbsentList, Num(30)), NoFirstDone, Absent,
                  Absent),
         FdSource(FirstDone(Absent, AbsentList, Num(30)), NoFirstDone, "a1",
                  Absent),
         FdSource(FirstDone(Absent, <<"a1">>, Num(20)), NoFirstDone, Absent,
                  Absent),
         FdSource(NoFirstDone, NoFirstDone, Absent, Absent)}
      Criterias ==
        {Hit, StillOpen,
         Criteria(Absent, "done", Absent, "in", Num(0), Num(3), Num(0), AbsentV,
                  None, Absent),
         Criteria("done", Absent, "out", "in", Num(2), AbsentV, AbsentV, AbsentV,
                  Absent, Absent),
         Criteria("done", Absent, "in", Absent, AbsentV, AbsentV, AbsentV, AbsentV,
                  Absent, Absent),
         Criteria("done", Absent, "in", Absent, Num(2), AbsentV, Num(1), AbsentV,
                  Absent, Absent),
         Criteria("done", Absent, "in", Absent, Num(2), AbsentV, AbsentV, Num(2),
                  Absent, Absent),
         Criteria("done", Absent, "in", Absent, Num(2), AbsentV, AbsentV, AbsentV,
                  Absent, "c9"),
         Criteria("done", Absent, "in", Absent, NoneV, NoneV, AbsentV, AbsentV,
                  Absent, Absent),
         Criteria("done", Absent, "in", Absent, Num(2), AbsentV, AbsentV, NoneV,
                  Absent, Absent),
         Criteria("open", Absent, "in", Absent, AbsentV, NoneV, AbsentV, AbsentV,
                  Absent, Absent)}
  IN {FirstDoneConv(src, k) : src \in FdSources, k \in {Hit, StillOpen}}
     \cup
     {FirstDoneConv(src, k) :
        src \in {FdSource(FirstDone("a1", AbsentList, Num(30)), NoFirstDone,
                          Absent, Absent),
                 FdSource(FirstDone(Absent, <<"t1", "t2">>, Num(40)),
                          NoFirstDone, Absent, Absent)},
        k \in Criterias}

FirstResponseConv(del, mc, fr) ==
  [deleted |-> del, messageCount |-> mc, firstResponse |-> fr]
FirstResponseConvs ==
  LET
      FirstResponses ==
        {NoFirstDone, FirstDone("a1", AbsentList, Num(12)),
         FirstDone("a2", AbsentList, AbsentV), FirstDone("a1", AbsentList, StrV),
         FirstDone(Unknown, AbsentList, Num(12)),
         FirstDone(Absent, AbsentList, Num(12)),
         FirstDone("t1", AbsentList, Num(9))}
  IN {FirstResponseConv(x[1], x[2], FirstDone("a1", AbsentList, Num(12))) :
        x \in {<<Absent, Num(2)>>, <<PyTrue, Num(2)>>, <<PyFalse, Num(0)>>,
               <<Absent, AbsentV>>, <<Absent, NoneV>>}}
     \cup {FirstResponseConv(Absent, Num(2), fr) : fr \in FirstResponses}

\* ------------------------------------------------------------- state
VARIABLES
  user_map,   \* ids of the human agents loaded
  team_map,   \* ids of the teams loaded
  stats,      \* the accumulator map: id -> bucket
  pc,         \* the loop the script is in
  ev,         \* the loop variable (m, c, ct) of the iteration just run
  n,          \* events read so far
  rows,       \* the rows written to the CSV: id -> row
  swapped,    \* the accumulator map of the same events folded in another order
  attempt,    \* request_retry: the loop variable
  codes,      \* request_retry: the status codes received, in order
  waits,      \* request_retry: the sleeps made, in order
  outcome,    \* request_retry: "running", "returned", "raised", "returned_none"
  rpc,        \* request_retry: the next statement, "request" or "test"
  page,       \* paginated_search: the next page index
  total_pages, \* paginated_search: the page count it believes in
  requested,  \* paginated_search: the page indexes requested, in order
  reports,    \* paginated_search: meta.totalPages of each response, in order
  search,     \* paginated_search: "running", "ended" or "raised"
  date_range, \* search_by_day: START_DATE and END_DATE, as day numbers
  base_body,  \* search_by_day: the search body it was given
  day_start,  \* search_by_day: the local `start`, the day being searched
  sent,       \* search_by_day: the bodies searched with, in order
  results,    \* search_by_day: how often each record is in `results`
  dpc         \* search_by_day: "first_half", "second_half", "returned", "raised"

retryVars == <<attempt, codes, waits, outcome, rpc>>
pageVars == <<page, total_pages, requested, reports, search>>
dayVars == <<date_range, base_body, day_start, sent, results, dpc>>

\* The variables of the fold, which the HTTP helpers do not touch.
foldVars == <<user_map, team_map, stats, pc, ev, n, rows, swapped>>

\* The variables of the HTTP helpers, which the fold loops do not touch.
httpVars == <<retryVars, pageVars, dayVars>>

\* No call of request_retry is under way.
RetryIdle ==
  /\ attempt = 0
  /\ codes = <<>>
  /\ waits = <<>>
  /\ outcome = "idle"
  /\ rpc = "idle"

\* No call of paginated_search is under way.
PagesIdle ==
  /\ page = 0
  /\ total_pages = Num(1)
  /\ requested = <<>>
  /\ reports = <<>>
  /\ search = "idle"

\* No call of search_by_day is under way.
DaysIdle ==
  /\ date_range = <<0, 0>>
  /\ base_body = <<>>
  /\ day_start = 0
  /\ sent = <<>>
  /\ results = <<>>
  /\ dpc = "idle"

\* No call of an HTTP helper is under way.
HttpIdle == RetryIdle /\ PagesIdle /\ DaysIdle

\* The variables the fold loops of the script do not touch.
aux == <<swapped, httpVars>>

vars == <<user_map, team_map, stats, pc, ev, n, rows, aux>>

\* The loop variable before the first iteration of a loop.
NoEvent == [none |-> TRUE]
EmptyMap == [k \in {} |-> DefaultStats]

\* The directory is what the API returned: user and team ids are usually
\* disjoint, but nothing in the script makes them so, hence also a directory
\* in which the id a1 names an agent and a team.
Init ==
  /\ user_map = UserIds
  /\ team_map \in {TeamIds, TeamIds \cup {"a1"}}
  /\ stats = EmptyMap
  /\ pc = "messages"
  /\ ev = NoEvent
  /\ n = 0
  /\ rows = EmptyMap
  /\ swapped = EmptyMap
  /\ HttpIdle

\* One iteration of a loop, on event e with result r.
Iterate(e, r) ==
  /\ n < MaxEvents
  /\ stats' = r.stats
  /\ pc' = IF r.raised THEN "aborted" ELSE pc
  /\ ev' = e
  /\ n' = n + 1
  /\ UNCHANGED <<user_map, team_map, rows, aux>>

ProcessMessages ==
  /\ pc = "messages"
  /\ \E m \in Messages :
       Iterate(m, ProcessMessage(stats, user_map, team_map, m))

ProcessConversationsDone ==
  /\ pc = "conv_done"
  /\ \E c \in ConvDones :
       Iterate(c, ProcessConvDone(stats, user_map, team_map, c))

ProcessConversationTimes ==
  /\ pc = "conv_times"
  /\ \E ct \in ConvTimes :
       Iterate(ct, ProcessConvTime(stats, user_map, team_map, ct))

ProcessFirstContactResolution ==
  /\ pc = "first_done"
  /\ \E c \in FirstDoneConvs :
       Iterate(c, ProcessFirstDone(stats, user_map, team_map, c))

ProcessFirstResponseTimes ==
  /\ pc = "first_response"
  /\ \E c \in FirstResponseConvs :
       Iterate(c, ProcessFirstResponse(stats, user_map, team_map, c))

\* The running loop's list is exhausted: the next loop starts.
EndLoop ==
  LET
      Loops ==
        <<"messages", "conv_done", "conv_times", "first_done", "first_response">>
      LoopAfter(l) ==
        CASE l = "messages" -> "conv_done"
          [] l = "conv_done" -> "conv_times"
          [] l = "conv_times" -> "first_done"
          [] l = "first_done" -> "first_response"
          [] l = "first_response" -> "export"
  IN /\ pc \in {Loops[i] : i \in 1..Len(Loops)}
     /\ pc' = LoopAfter(pc)
     /\ ev' = NoEvent
     /\ UNCHANGED <<user_map, team_map, stats, n, rows, aux>>

ExportCsv ==
  /\ pc = "export"
  /\ LET rs == [id \in DOMAIN stats |-> Row(id, stats[id])]
     IN IF \E id \in DOMAIN stats : RowRaises(rs[id])
        THEN pc' = "aborted" /\ rows' = rows
        ELSE pc' = "done" /\ rows' = rs
  /\ UNCHANGED <<user_map, team_map, stats, ev, n, aux>>

Next ==
  \/ ProcessMessages
  \/ ProcessConversationsDone
  \/ ProcessConversationTimes
  \/ ProcessFirstContactResolution
  \/ ProcessFirstResponseTimes
  \/ EndLoop
  \/ ExportCsv

Spec == Init /\ [][Next]_vars

\* ================================================================ claims
\* Every id an event can name.
EventIds == UserIds \cup TeamIds \cup {Unknown, "tz"}

\* The loop `l` has just run one iteration, on the event now in ev'.
Iterated(l) == pc = l /\ n' = n + 1

\* Owner o is entity E, a member of the directory of o's kind.
AttributedTo(o, E) ==
  /\ ~o.raised
  /\ o.id = E
  /\ \/ o.kind = "user" /\ E \in user_map
     \/ o.kind = "team" /\ E \in team_map

\* An outbound message that is not automated.
QualifyingMessage(m) == MsgDirection(m) = "out" /\ ~Truthy(MsgAuto(m))

\* The ids a message carries, as a set of at most one element.
CarriedConv(m) == IF Truthy(MsgConvId(m)) THEN {MsgConvId(m)} ELSE {}
CarriedCust(m) == IF Truthy(MsgCustId(m)) THEN {MsgCustId(m)} ELSE {}

\* C1: every step of the run adds exactly 1 to messages_sent of entity E
\* when it is a message iteration on a message that is outbound, not
\* automated and attributed to directory member E, and 0 otherwise, so that
\* messages_sent(E), which starts at 0, is the number of such messages; such
\* a message adds its conversation id and its customer id, when it carries
\* them, to E's sets, which no other step changes.
C1_MessagesSentCountsQualifying ==
  [][\A E \in EventIds :
       LET q == /\ Iterated("messages")
                /\ QualifyingMessage(ev')
                /\ AttributedTo(get_agent_or_team_id(ev'.owner), E)
           old == Bucket(stats, E)
           new == Bucket(stats', E)
       IN /\ new.msgs = old.msgs + (IF q THEN 1 ELSE 0)
          /\ q => /\ E \in DOMAIN stats'
                  /\ new.conv = old.conv \cup CarriedConv(ev')
                  /\ new.cust = old.cust \cup CarriedCust(ev')
          /\ ~q => (new.conv = old.conv /\ new.cust = old.cust)
          /\ (Iterated("messages") /\ ~q) =>
               (E \in DOMAIN stats' <=> E \in DOMAIN stats)]_vars

\* The scenario of the claim: one qualifying message of agent a1 with
\* conversation c1 and customer u1 has been folded.
C1_Witness ==
  /\ pc = "messages" /\ n = 1
  /\ QualifyingMessage(ev)
  /\ AttributedTo(get_agent_or_team_id(ev.owner), "a1")
  /\ stats["a1"].msgs = 1
  /\ stats["a1"].conv = {"c1"}
  /\ stats["a1"].cust = {"u1"}

\* C2: the reported unique-conversation (unique-customer) count of E grows
\* by one exactly when a qualifying message of E carries an id not seen
\* before, and stays the same on an already-seen id, while messages_sent
\* grows by one either way.
C2_UniqueCountsAreDistinct ==
  [][Iterated("messages") =>
       \A E \in EventIds :
         (QualifyingMessage(ev')
            /\ AttributedTo(get_agent_or_team_id(ev'.owner), E)) =>
           LET old == Row(E, Bucket(stats, E))
               new == Row(E, Bucket(stats', E))
           IN /\ new.msgs = old.msgs + 1
              /\ new.conv_ct = old.conv_ct +
                   (IF CarriedConv(ev') \subseteq Bucket(stats, E).conv
                    THEN 0 ELSE 1)
              /\ new.cust_ct = old.cust_ct +
                   (IF CarriedCust(ev') \subseteq Bucket(stats, E).cust
                    THEN 0 ELSE 1)]_vars

\* A second message of the same agent in an already-seen conversation, for an
\* already-seen customer, has been folded.
C2_Witness ==
  /\ pc = "messages" /\ n = 2
  /\ QualifyingMessage(ev)
  /\ \E E \in DOMAIN stats :
       /\ AttributedTo(get_agent_or_team_id(ev.owner), E)
       /\ stats[E].msgs = 2
       /\ CarriedConv(ev) # {} /\ CarriedCust(ev) # {}
       /\ Row(E, stats[E]).conv_ct = 1
       /\ Row(E, stats[E]).cust_ct = 1

\* C3: a message iteration on a message that is automated or not outbound
\* changes no accumulator, creates none and does not end the run, whatever
\* the other fields of the message are.
C3_ExcludedMessageChangesNothing ==
  [][(Iterated("messages") /\ ~QualifyingMessage(ev')) =>
       (stats' = stats /\ pc' = pc)]_vars

\* An automated message that names a known agent, a conversation, a customer,
\* a response time and a shortcut was folded after a counted message.
C3_Witness ==
  /\ pc = "messages" /\ n = 2
  /\ Truthy(MsgAuto(ev))
  /\ MsgDirection(ev) = "out"
  /\ get_agent_or_team_id(ev.owner) = Owner("a1", "user")
  /\ Truthy(MsgConvId(ev)) /\ Truthy(MsgCustId(ev))
  /\ IsNumber(MsgRespBt(ev)) /\ TruthyL(MsgShortcuts(ev))
  /\ "a1" \in DOMAIN stats /\ stats["a1"].msgs = 1

\* The loops that hand the raw event to get_agent_or_team_id.
ItemLoops == {"messages", "conv_times"}

\* The created-by-agent field of an item (the relationship before the flat
\* key) and its created-by-teams list (likewise).
HasAgentField(item) == item.relCreatedBy # Absent \/ item.createdBy # Absent
AgentField(item) ==
  IF item.relCreatedBy # Absent THEN item.relCreatedBy ELSE item.createdBy
HasTeamsField(item) ==
  item.relCreatedByTeams # AbsentList \/ item.createdByTeams # AbsentList

\* C4: an event that carries both a created-by-agent field and a
\* created-by-teams field is attributed to the agent id with kind "user",
\* and folding it changes no accumulator other than that agent's, whose kind
\* it sets to "user": no team receives a contribution.
C4_AgentBeforeTeam ==
  [][((pc \in ItemLoops) /\ n' = n + 1
        /\ HasAgentField(ev'.owner) /\ HasTeamsField(ev'.owner)) =>
       LET o == get_agent_or_team_id(ev'.owner)
       IN /\ o = Owner(AgentField(ev'.owner), "user")
          /\ \A E \in DOMAIN stats' :
               Bucket(stats', E) # Bucket(stats, E) =>
                 (E = AgentField(ev'.owner) /\ stats'[E].type = "user")
          /\ DOMAIN stats' \subseteq DOMAIN stats \cup {AgentField(ev'.owner)}]_vars

\* A message naming agent a1 and team t1 was counted for a1, and t1, a team
\* of the directory, has no accumulator.
C4_Witness ==
  /\ pc = "messages" /\ n = 1
  /\ ev.owner.relCreatedBy = "a1"
  /\ ev.owner.relCreatedByTeams = <<"t1">>
  /\ "t1" \in team_map
  /\ DOMAIN stats = {"a1"}
  /\ stats["a1"].msgs = 1 /\ stats["a1"].type = "user"

\* The first team of the event's non-empty created-by-teams list, the
\* relationship shape before the flat one.
FirstTeam(item) ==
  IF TruthyL(item.relCreatedByTeams) THEN item.relCreatedByTeams[1]
  ELSE item.createdByTeams[1]

\* C5 (as stated): whenever the created-by-agent field of the event read
\* last does not resolve to an id (absent, null or empty) and the event
\* carries a non-empty created-by-teams list in either shape, attribution
\* returns the first team of that list with kind "team".
C5_TeamFallback ==
  (pc \in ItemLoops /\ "owner" \in DOMAIN ev) =>
    ((~Truthy(AgentField(ev.owner))
        /\ (TruthyL(ev.owner.relCreatedByTeams)
              \/ TruthyL(ev.owner.createdByTeams))) =>
       get_agent_or_team_id(ev.owner) = Owner(FirstTeam(ev.owner), "team"))

\* C6: every key of stats is a member of the directory of the kind its
\* accumulator was attributed as, in every loop and after a raise; an id
\* the directory does not hold never becomes a key.
C6_KeysInDirectory ==
  \A E \in DOMAIN stats :
    /\ stats[E].type \in {"user", "team"}
    /\ stats[E].type = "user" => E \in user_map
    /\ stats[E].type = "team" => E \in team_map

\* An event whose owner is unknown to the directory was read after a counted
\* one, and the unknown id has no accumulator.
C6_Witness ==
  /\ n = 2 /\ "owner" \in DOMAIN ev
  /\ get_agent_or_team_id(ev.owner).id \in {Unknown, "tz"}
  /\ DOMAIN stats # {}
  /\ DOMAIN stats \cap {Unknown, "tz"} = {}

\* A done conversation that is soft-deleted or has no message.
\* (a null messageCount raises before any accumulator is touched)
DeletedOrEmpty(c) ==
  Truthy(c.deleted) \/ (c.messageCount.t \in {"absent", "num"}
                          /\ CountOrZero(c.messageCount) <= 0)

\* Bucket s with its conversations_done raised by one and its kind set.
DoneCounted(s, kind) == [s EXCEPT !.conv_done = @ + 1, !.type = kind]

\* C7: a conversations-done iteration adds exactly 1 to conversations_done
\* of E, and changes nothing else than E's kind, when the conversation is not
\* soft-deleted, has a message count > 0 and its last-done-by agent is
\* directory member E; every other iteration of that loop, in particular one
\* on a conversation with message count 0 or soft-deleted, changes no
\* accumulator, and no step of another loop changes a conversations_done.
C7_ConversationsDoneCount ==
  [][IF Iterated("conv_done")
     THEN LET c == ev'
              counted == /\ ~Truthy(c.deleted)
                         /\ c.messageCount.t = "num" /\ c.messageCount.n > 0
                         /\ c.lastDone_createdBy \in user_map
          IN /\ counted =>
                  stats' = Put(stats, c.lastDone_createdBy,
                               DoneCounted(Bucket(stats, c.lastDone_createdBy),
                                           "user"))
             /\ ~counted => stats' = stats
             /\ DeletedOrEmpty(c) => pc' = pc
     ELSE \A E \in EventIds :
            Bucket(stats', E).conv_done = Bucket(stats, E).conv_done]_vars

\* Two done conversations of agent a1 were counted.
C7_Witness ==
  /\ pc = "conv_done" /\ n = 2
  /\ "lastDone_createdBy" \in DOMAIN ev
  /\ ev.lastDone_createdBy = "a1"
  /\ "a1" \in DOMAIN stats
  /\ stats["a1"].conv_done = 2

\* The criteria of a first-contact-resolution hit, on the resolved fields.
IsFcrHit(c) ==
  /\ FcrStatus(c) = "done"
  /\ FcrDirection(c) = "in"
  /\ IsNumber(FcrMessageCount(c)) /\ FcrMessageCount(c).n > 0
  /\ IsNumber(FcrReopenCount(c)) /\ FcrReopenCount(c).n <= 0
  /\ ~Truthy(FcrMergedTarget(c))

\* C8: every step adds exactly 1 to fcr_eligible of E when it is a
\* first-done iteration whose first-done-by owner (an agent id, else the
\* first team) is directory member E, and then adds 1 to fcr_hits of E if
\* and only if the conversation is done, inbound, has messages, was not
\* reopened and has no merge target; otherwise both counts stay.  Two
\* eligible events with one hit give a rate of 50.00.
C8_FirstContactResolution ==
  [][\A E \in EventIds :
       LET owned == /\ Iterated("first_done")
                    /\ AttributedTo(FcrOwner(FcrFirstDone(ev')), E)
           old == Bucket(stats, E)
           new == Bucket(stats', E)
       IN /\ new.fcr_total = old.fcr_total + (IF owned THEN 1 ELSE 0)
          /\ new.fcr_hits = old.fcr_hits +
               (IF owned /\ IsFcrHit(ev') THEN 1 ELSE 0)
          /\ (new.fcr_total = 2 /\ new.fcr_hits = 1) =>
               Row(E, new).fcr_rate = Val(5000)]_vars

\* Two first-done events of one agent, one a hit and one not.
C8_Witness ==
  /\ pc = "first_done" /\ n = 2
  /\ \E E \in DOMAIN stats \cap user_map :
       /\ stats[E].fcr_total = 2
       /\ stats[E].fcr_hits = 1
       /\ Row(E, stats[E]).fcr_rate = Val(5000)

\* C9: in every state, the row of every accumulator is built without a
\* division or empty-sample error, and each derived metric whose denominator
\* is zero or whose sample sequence is empty is 0; the export therefore
\* writes a row for every accumulator.
C9_ZeroDenominator ==
  /\ \A E \in DOMAIN stats :
       LET s == stats[E]
           r == Row(E, s)
       IN /\ ~RowRaises(r)
          /\ Len(s.handle_times) = 0 => r.avg_handle_time = Val(0)
          /\ Cardinality(s.conv) = 0 => r.msgs_per_conv = Val(0)
          /\ Cardinality(s.cust) = 0 => r.msgs_per_cust = Val(0)
          /\ s.fcr_total = 0 => r.fcr_rate = Val(0)
          /\ Len(s.resp_times) = 0 => r.avg_resp = Val(0)
          /\ Len(s.first_resp_times) = 0 =>
               (r.avg_first_resp = Val(0) /\ r.med_first_resp = Val(0))
          /\ Len(s.first_resolution_times) = 0 =>
               (r.avg_first_res = Val(0) /\ r.med_first_res = Val(0))
          /\ s.msgs = 0 => r.shortcut_pct = Val(0)
  /\ pc = "done" => DOMAIN rows = DOMAIN stats

\* The report was written with a row for an accumulator that has no message,
\* no first-done event and no sample of any kind.
C9_Witness ==
  /\ pc = "done"
  /\ \E E \in DOMAIN rows :
       /\ stats[E].msgs = 0 /\ stats[E].fcr_total = 0
       /\ stats[E].conv_done = 2
       /\ rows[E].fcr_rate = Val(0) /\ rows[E].shortcut_pct = Val(0)
       /\ rows[E].avg_handle_time = Val(0)

\* C10 (as stated): the reported average handle time of every accumulator is
\* the sum of its handle-time contributions divided by its conversations_done
\* count, and 0 when that count is 0.
C10_AvgHandleTimePerDone ==
  \A E \in DOMAIN stats :
    LET s == stats[E]
    IN Row(E, s).avg_handle_time =
         IF s.conv_done = 0 THEN Val(0)
         ELSE Val(Round2(Sum(s.handle_times), s.conv_done))

\* A conversations-done entry that the loop counts: not soft-deleted, with a
\* message count > 0 and a last-done-by agent of the directory.
CountedDone(c) ==
  /\ ~Truthy(c.deleted)
  /\ c.messageCount.t = "num" /\ c.messageCount.n > 0
  /\ c.lastDone_createdBy \in user_map

\* C11 (as stated): a conversations-done iteration on a counted conversation
\* that carries a numeric handle time adds that value to the handle-time
\* accumulation of its owner.
C11_DoneHandleTimeAdded ==
  [][(Iterated("conv_done") /\ CountedDone(ev') /\ IsNumber(ev'.handleTime))
       => LET E == ev'.lastDone_createdBy
          IN Sum(Bucket(stats', E).handle_times) =
               Sum(Bucket(stats, E).handle_times) + ev'.handleTime.n]_vars

\* C12 (as stated): the script keeps no conflict flag, so the kind stored in
\* an accumulator never changes once a contribution has set it.
C12_KindNeverOverwritten ==
  [][\A E \in DOMAIN stats :
       E \in DOMAIN stats' /\ stats'[E].type = stats[E].type]_vars

\* C13 (as stated): no iteration of a fold loop and no row of the export
\* raises, whatever the shape of the events.
C13_NeverAborts == pc # "aborted"

\* ==================================================== the order of folding
\* The same events folded in two orders.  An event of any stream, tagged with
\* the loop that reads it.
MaxOrderEvents == 2

\* One iteration of the loop that reads the event's stream.
Fold(st, um, tm, te) ==
  CASE te.stream = "messages" -> ProcessMessage(st, um, tm, te.e)
    [] te.stream = "conv_done" -> ProcessConvDone(st, um, tm, te.e)
    [] te.stream = "conv_times" -> ProcessConvTime(st, um, tm, te.e)
    [] te.stream = "first_done" -> ProcessFirstDone(st, um, tm, te.e)
    [] te.stream = "first_response" -> ProcessFirstResponse(st, um, tm, te.e)

OrderEvents ==
  LET
      \* Every owner shape on a plain outbound message; every direction / auto
      \* shape on four owners; every payload on three owners.
      PlainOut == DirAuto("out", Absent, Absent, Absent)
      OrderOwners ==
        PayloadOwners \cup {Item(Absent, Absent, AbsentList, <<"a1">>)}
      Tagged(stream, e) == [stream |-> stream, e |-> e]
  IN {Tagged("messages", Message(PlainOut, o, p)) :
        o \in OrderOwners,
        p \in {FullPayload,
               Payload("c2", Absent, Absent, "u2", AbsentV, Num(7), AbsentList,
                       AbsentList, AbsentList)}}
     \cup
     {Tagged("messages",
             Message(PlainOut, Item(NoData, Absent, AbsentList, AbsentList),
                     FullPayload))}
     \cup
     {Tagged("conv_done", ConvDone(Absent, Num(2), by, Num(5))) :
        by \in {"a1", "a2"}}
     \cup
     {Tagged("conv_times", ConvTime(o, h, AbsentV)) :
        o \in {Item("a1", Absent, AbsentList, AbsentList),
               Item(Absent, Absent, <<"t1", "t2">>, AbsentList),
               Item(Absent, Absent, AbsentList, <<"a1">>)},
        h \in {Num(5), Num(7)}}
     \cup
     {Tagged("first_done", FirstDoneConv(src, k)) :
        src \in {FdSource(FirstDone("a1", AbsentList, Num(30)), NoFirstDone,
                          Absent, Absent),
                 FdSource(FirstDone(Absent, <<"t1", "t2">>, Num(40)),
                          NoFirstDone, Absent, Absent),
                 FdSource(FirstDone(Absent, <<"a1">>, Num(20)), NoFirstDone,
                          Absent, Absent)},
        k \in {Hit, StillOpen}}
     \cup
     {Tagged("first_response", FirstResponseConv(Absent, Num(2), fr)) :
        fr \in {FirstDone("a1", AbsentList, Num(12)),
                FirstDone("a2", AbsentList, Num(3))}}

OrderInit ==
  /\ user_map = UserIds
  /\ team_map \in {TeamIds, TeamIds \cup {"a1"}}
  /\ stats = EmptyMap
  /\ swapped = EmptyMap
  /\ pc = "fold"
  /\ ev = NoEvent
  /\ n = 0
  /\ rows = EmptyMap
  /\ HttpIdle

\* Two events are read: x then y into stats, y then x into swapped.  A raise
\* in either order ends the run before any report.
FoldBothOrders ==
  LET
      \* Two iterations, the second on the map the first left; raised when either
      \* iteration raised.
      Fold2(st, um, tm, x, y) ==
        LET r1 == Fold(st, um, tm, x)
            r2 == Fold(r1.stats, um, tm, y)
        IN IF r1.raised THEN r1 ELSE r2
  IN /\ pc = "fold"
     /\ n + 2 <= MaxOrderEvents
     /\ \E x, y \in OrderEvents :
          LET a == Fold2(stats, user_map, team_map, x, y)
              b == Fold2(swapped, user_map, team_map, y, x)
          IN /\ ev' = <<x, y>>
             /\ IF a.raised \/ b.raised
                THEN pc' = "aborted" /\ UNCHANGED <<stats, swapped>>
                ELSE pc' = pc /\ stats' = a.stats /\ swapped' = b.stats
     /\ n' = n + 2
     /\ UNCHANGED <<user_map, team_map, rows, httpVars>>

\* The report of the first order is written.
OrderExport ==
  /\ pc = "fold"
  /\ pc' = "done"
  /\ rows' = [id \in DOMAIN stats |-> Row(id, stats[id])]
  /\ UNCHANGED <<user_map, team_map, stats, swapped, ev, n, httpVars>>

OrderNext == FoldBothOrders \/ OrderExport

SpecOrder == OrderInit /\ [][OrderNext]_vars

\* A bucket with each sample sequence as the multiset of its values.
Canon(s) ==
  [s EXCEPT !.handle_times = SortSeq(@, <=),
            !.resp_times = SortSeq(@, <=),
            !.first_resp_times = SortSeq(@, <=),
            !.first_resolution_times = SortSeq(@, <=)]

\* C14 (as stated): the two orders give every entity the same kind, counts,
\* id sets and sample multisets, and the same report row.
C14_OrderInsensitive ==
  /\ DOMAIN stats = DOMAIN swapped
  /\ \A E \in DOMAIN stats \cap DOMAIN swapped :
       /\ Canon(stats[E]) = Canon(swapped[E])
       /\ Row(E, stats[E]) = Row(E, swapped[E])

\* ============================================== claims on the fold (cont.)
\* The bucket holds at least one contribution.
Contributed(s) ==
  \/ s.msgs > 0
  \/ s.conv_done > 0
  \/ s.fcr_total > 0
  \/ Len(s.handle_times) > 0
  \/ Len(s.resp_times) > 0
  \/ Len(s.first_resp_times) > 0
  \/ Len(s.first_resolution_times) > 0

\* C15: at every point of the run every accumulator of stats holds at least
\* one contribution (a message, a done conversation, a first-done event or a
\* sample), and the report has a row for exactly the accumulators, so a
\* directory member without a contributing event has no row.
C15_LazyCreation ==
  /\ \A E \in DOMAIN stats : Contributed(stats[E])
  /\ pc = "done" => /\ DOMAIN rows = DOMAIN stats
                    /\ \A E \in DOMAIN rows : Contributed(stats[E])

\* A conversation-time entry of agent a1 without a numeric handle time was
\* just read, after an event that gave another entity its accumulator: a1, a
\* directory member, has none.
C15_Witness ==
  /\ pc = "conv_times"
  /\ n = 2
  /\ DOMAIN ev = {"owner", "handleTime", "attr_handleTime"}
  /\ get_agent_or_team_id(ev.owner) = Owner("a1", "user")
  /\ ev.handleTime = StrV /\ ~IsNumber(CtHandleTime(ev))
  /\ "a1" \in user_map /\ "a1" \notin DOMAIN stats
  /\ stats # EmptyMap

\* The message's response business time, flat or under attributes, is there
\* and is not a number.
MalformedRespTime(m) ==
  \/ m.responseBusinessTime.t = "str"
  \/ /\ m.responseBusinessTime.t \in {"absent", "none"}
     /\ m.attr_responseBusinessTime.t = "str"

CarriesShortcuts(m) ==
  \E l \in {m.shortcuts, m.attr_shortcuts, m.attr_shortcutIds} :
    l # AbsentList /\ Len(l) > 0

\* C16: a qualifying message of directory member E whose response business
\* time is not a number leaves E's response-time samples as they were and
\* still adds 1 to messages_sent, its conversation and customer ids to the
\* sets and 1 to the shortcut count when it carries shortcuts; a first-done
\* event of E whose business time is not a number leaves E's
\* first-resolution samples as they were and still adds 1 to fcr_eligible
\* and, when the criteria hold, 1 to fcr_hits.
C16_MalformedSampleOnlySkipped ==
  [][\A E \in EventIds :
       LET old == Bucket(stats, E)
           new == Bucket(stats', E)
       IN /\ (/\ Iterated("messages")
              /\ QualifyingMessage(ev')
              /\ AttributedTo(get_agent_or_team_id(ev'.owner), E)
              /\ MalformedRespTime(ev'))
             => /\ new.resp_times = old.resp_times
                /\ new.msgs = old.msgs + 1
                /\ new.conv = old.conv \cup CarriedConv(ev')
                /\ new.cust = old.cust \cup CarriedCust(ev')
                /\ new.shortcuts =
                     old.shortcuts + (IF CarriesShortcuts(ev') THEN 1 ELSE 0)
          /\ (/\ Iterated("first_done")
              /\ AttributedTo(FcrOwner(FcrFirstDone(ev')), E)
              /\ FcrFirstDone(ev').businessTime.t = "str")
             => /\ new.first_resolution_times = old.first_resolution_times
                /\ new.fcr_total = old.fcr_total + 1
                /\ new.fcr_hits =
                     old.fcr_hits + (IF IsFcrHit(ev') THEN 1 ELSE 0)]_vars

\* Agent a1 sent a message with a numeric response time and then one, with a
\* conversation, a customer and a shortcut, whose response time is a string.
C16_Witness ==
  /\ pc = "messages"
  /\ n = 2
  /\ "responseBusinessTime" \in DOMAIN ev
  /\ MalformedRespTime(ev)
  /\ CarriesShortcuts(ev)
  /\ "a1" \in DOMAIN stats
  /\ stats["a1"].msgs = 2
  /\ stats["a1"].shortcuts = 2
  /\ stats["a1"].resp_times = <<5>>
  /\ stats["a1"].conv = {"c1"} /\ stats["a1"].cust = {"u1"}

\* The customer id the message itself carries, flat or as a relationship.
OwnCust(m) ==
  IF Truthy(m.customerId) THEN {m.customerId}
  ELSE IF Truthy(m.relCustomer) THEN {m.relCustomer}
  ELSE {}

\* The customer id of the message's parent conversation record, when the
\* message names a conversation and that conversation was fetched.
ParentCust(m) ==
  {ConvLookup[c] : c \in CarriedConv(m) \cap DOMAIN ConvLookup}

\* C17 (as stated): a qualifying message of directory member E adds to E's
\* customer set the customer id found on the message and, when it carries
\* none, the customer id of its parent conversation record; when neither
\* exists nothing is added.
C17_CustomerFromParent ==
  [][\A E \in EventIds :
       (/\ Iterated("messages")
        /\ QualifyingMessage(ev')
        /\ AttributedTo(get_agent_or_team_id(ev'.owner), E))
       => Bucket(stats', E).cust =
            Bucket(stats, E).cust \cup
              (IF OwnCust(ev') # {} THEN OwnCust(ev') ELSE ParentCust(ev'))]_vars

\* C18 (as stated): a qualifying message of directory member E whose response
\* business time is the number 0 appends 0 to E's response-time samples, and
\* a conversation-time entry of E whose handle time is the number 0 appends
\* 0 to E's handle-time samples.
C18_ZeroIsASample ==
  [][\A E \in EventIds :
       LET old == Bucket(stats, E)
           new == Bucket(stats', E)
       IN /\ (/\ Iterated("messages")
              /\ QualifyingMessage(ev')
              /\ AttributedTo(get_agent_or_team_id(ev'.owner), E)
              /\ ev'.responseBusinessTime = Num(0))
             => new.resp_times = Append(old.resp_times, 0)
          /\ (/\ Iterated("conv_times")
              /\ AttributedTo(get_agent_or_team_id(ev'.owner), E)
              /\ ev'.handleTime = Num(0))
             => new.handle_times = Append(old.handle_times, 0)]_vars

\* ========================================================== request_retry
MAX_RETRIES == 4

RetryCodes == {429, 502, 503, 504}

\* Mutant: `attempt < MAX_RETRIES` is missing from the test.
ShouldRetryAnyAttempt(code, a) == code \in RetryCodes

\* `r.status_code in (429, 502, 503, 504) and attempt < MAX_RETRIES`
ShouldRetry(code, a) == code \in RetryCodes /\ a < MAX_RETRIES

\* 2 ** k
RECURSIVE Pow2(_)
Pow2(k) == IF k = 0 THEN 1 ELSE 2 * Pow2(k - 1)

\* request_retry was called: the for loop starts with attempt 0.
RetryInit ==
  /\ attempt = 0
  /\ codes = <<>>
  /\ waits = <<>>
  /\ outcome = "running"
  /\ rpc = "request"
  /\ PagesIdle
  /\ DaysIdle
  /\ user_map = {}
  /\ team_map = {}
  /\ stats = EmptyMap
  /\ swapped = EmptyMap
  /\ pc = "idle"
  /\ ev = NoEvent
  /\ n = 0
  /\ rows = EmptyMap

\* r = requests.request(...): the server answers with some status code.
SendRequest ==
  LET
      \* The status codes a response can carry: successes, the four codes the
      \* helper retries, and other errors.
      StatusCodes == {200, 399, 400, 404, 429, 500, 502, 503, 504}
  IN /\ outcome = "running"
     /\ rpc = "request"
     /\ \E code \in StatusCodes : codes' = Append(codes, code)
     /\ rpc' = "test"
     /\ UNCHANGED <<attempt, waits, outcome, foldVars, pageVars, dayVars>>

\* if r.status_code < 400: return r
ReturnResponse ==
  /\ outcome = "running"
  /\ rpc = "test"
  /\ codes[Len(codes)] < 400
  /\ outcome' = "returned"
  /\ UNCHANGED <<attempt, codes, waits, rpc, foldVars, pageVars, dayVars>>

\* time.sleep(wait); continue -- and the loop header: when the range is
\* exhausted the function ends without a return statement.
SleepAndContinue ==
  /\ outcome = "running"
  /\ rpc = "test"
  /\ ~(codes[Len(codes)] < 400)
  /\ ShouldRetry(codes[Len(codes)], attempt)
  /\ waits' = Append(waits, Pow2(attempt + 1))
  /\ attempt' = attempt + 1
  /\ IF attempt + 1 < MAX_RETRIES + 1
     THEN rpc' = "request" /\ outcome' = outcome
     ELSE rpc' = rpc /\ outcome' = "returned_none"
  /\ UNCHANGED <<codes, foldVars, pageVars, dayVars>>

\* raise RuntimeError(...)
RaiseRuntimeError ==
  /\ outcome = "running"
  /\ rpc = "test"
  /\ ~(codes[Len(codes)] < 400)
  /\ ~ShouldRetry(codes[Len(codes)], attempt)
  /\ outcome' = "raised"
  /\ UNCHANGED <<attempt, codes, waits, rpc, foldVars, pageVars, dayVars>>

RetryNext ==
  \/ SendRequest
  \/ ReturnResponse
  \/ SleepAndContinue
  \/ RaiseRuntimeError

SpecRetry == RetryInit /\ [][RetryNext]_vars

\* The interpreter runs the next statement of the function.
SpecRetryFair == SpecRetry /\ WF_vars(RetryNext)

\* The call has ended.
RetryEnded == outcome \in {"returned", "raised", "returned_none"}

\* What holds at every point of a call of request_retry.
RetryContract ==
  \* at most MAX_RETRIES + 1 requests
  /\ Len(codes) <= MAX_RETRIES + 1
  \* it never ends without a response or an error
  /\ outcome \in {"running", "returned", "raised"}
  \* a response is returned when, and as soon as, its status is < 400
  /\ outcome = "returned" => codes[Len(codes)] < 400
  /\ \A i \in 1..Len(codes) :
       codes[i] < 400 => i = Len(codes) /\ (rpc = "test" \/ RetryEnded)
  \* an error status that is not retried ends the call at once
  /\ \A i \in 1..Len(codes) :
       (codes[i] >= 400 /\ codes[i] \notin RetryCodes)
         => i = Len(codes) /\ outcome # "returned"
  \* the error is raised on such a status, or on the last request
  /\ outcome = "raised" =>
       /\ codes[Len(codes)] >= 400
       /\ codes[Len(codes)] \notin RetryCodes \/ Len(codes) = MAX_RETRIES + 1
  \* one sleep between two requests, of 2, 4, 8, ... seconds, none after the
  \* last request
  /\ \A i \in 1..Len(waits) : waits[i] = Pow2(i)
  /\ Len(waits) = IF rpc = "request" THEN Len(codes) ELSE Len(codes) - 1

\* C19: at every point of a call of request_retry the contract above holds
\* (at most MAX_RETRIES + 1 requests; the first response with a status < 400
\* is returned; RuntimeError is raised at once on a status >= 400 that is not
\* 429/502/503/504, and after the last request when every status was
\* retryable; sleeps happen only between two requests), and the call ends,
\* with a response or with the error.
C19_RetryTerminates ==
  /\ []RetryContract
  /\ <>(outcome \in {"returned", "raised"} /\ rpc = "test")

\* Every one of the MAX_RETRIES + 1 requests was answered 429/502/503/504:
\* the call slept four times and raised after the fifth request.
C19_Witness ==
  /\ outcome = "raised"
  /\ Len(codes) = MAX_RETRIES + 1
  /\ \A i \in 1..Len(codes) : codes[i] \in RetryCodes
  /\ waits = <<2, 4, 8, 16>>

\* ======================================================= paginated_search
MaxPages == 4

\* Mutant: the page count of the response is ignored.
KeepTotalPages(total, reported) == total

\* data.get("meta", {}).get("totalPages", total_pages)
NextTotalPages(total, reported) ==
  IF reported.t = "absent" THEN total ELSE reported

\* paginated_search was called and the generator is consumed.
PagesInit ==
  /\ page = 0
  /\ total_pages = Num(1)
  /\ requested = <<>>
  /\ reports = <<>>
  /\ search = "running"
  /\ RetryIdle
  /\ DaysIdle
  /\ user_map = {}
  /\ team_map = {}
  /\ stats = EmptyMap
  /\ swapped = EmptyMap
  /\ pc = "idle"
  /\ ev = NoEvent
  /\ n = 0
  /\ rows = EmptyMap

\* `while page < total_pages` is true: the page is requested, the response
\* read, total_pages updated and page incremented.
RequestPage ==
  LET
      \* meta.totalPages of a response: missing, null, or a number.
      ReportedPages == {AbsentV, NoneV} \cup {Num(k) : k \in 0..MaxPages}
  IN /\ search = "running"
     /\ total_pages.t = "num" /\ page < total_pages.n
     /\ requested' = Append(requested, page)
     /\ \E reported \in ReportedPages :
          /\ reports' = Append(reports, reported)
          /\ total_pages' = NextTotalPages(total_pages, reported)
     /\ page' = page + 1
     /\ UNCHANGED <<search, retryVars, foldVars, dayVars>>

\* The page is requested and request_retry raises RuntimeError.
RequestRaises ==
  /\ search = "running"
  /\ total_pages.t = "num" /\ page < total_pages.n
  /\ requested' = Append(requested, page)
  /\ search' = "raised"
  /\ UNCHANGED <<page, total_pages, reports, retryVars, foldVars, dayVars>>

\* `page < total_pages` with a total_pages that is null: TypeError.
LoopTestRaises ==
  /\ search = "running"
  /\ total_pages.t # "num"
  /\ search' = "raised"
  /\ UNCHANGED <<page, total_pages, requested, reports, retryVars, foldVars, dayVars>>

\* `while page < total_pages` is false: the generator is exhausted.
EndSearch ==
  /\ search = "running"
  /\ total_pages.t = "num" /\ ~(page < total_pages.n)
  /\ search' = "ended"
  /\ UNCHANGED <<page, total_pages, requested, reports, retryVars, foldVars, dayVars>>

PagesNext ==
  \/ RequestPage
  \/ RequestRaises
  \/ LoopTestRaises
  \/ EndSearch

SpecPages == PagesInit /\ [][PagesNext]_vars

\* The interpreter runs the next statement of the generator.
SpecPagesFair == SpecPages /\ WF_vars(PagesNext)

\* The page count in force after the responses rs: the value most recently
\* reported, the count of 1 the search starts with when none was.
RECURSIVE InForce(_)
InForce(rs) ==
  IF rs = <<>> THEN Num(1)
  ELSE IF rs[Len(rs)].t = "absent" THEN InForce(SubSeq(rs, 1, Len(rs) - 1))
  ELSE rs[Len(rs)]

\* What holds at every point of a paginated search.
PagesContract ==
  \* pages 0, 1, 2, ... in this order, each once
  /\ \A i \in 1..Len(requested) : requested[i] = i - 1
  \* page 0 is always requested
  /\ search # "running" => Len(requested) >= 1
  \* a page is requested only below the count in force when it is requested
  /\ \A i \in 1..Len(requested) :
       LET before == InForce(SubSeq(reports, 1, i - 1))
       IN before.t = "num" /\ requested[i] < before.n
  \* every request but a failed last one got its response
  /\ Len(reports) = IF search = "raised" /\ InForce(reports).t = "num"
                    THEN Len(requested) - 1 ELSE Len(requested)
  \* the search ends normally exactly when the next index has reached the
  \* count in force
  /\ search = "ended" =>
       /\ InForce(reports).t = "num"
       /\ Len(requested) >= InForce(reports).n
       /\ Len(reports) = Len(requested)
  \* the reported counts are bounded, and so is the number of requests
  /\ Len(requested) <= MaxPages

\* C20: at every point of a paginated search the contract above holds (page
\* indexes 0, 1, 2, ... each once, page 0 always, never an index at or above
\* the page count most recently reported, the previous count being kept when
\* a response reports none; the search stops as soon as the next index
\* reaches that count), and the search ends.
C20_PagesInOrderUpToTotal ==
  /\ []PagesContract
  /\ <>(search \in {"ended", "raised"})

\* The server reported 3 pages, then nothing, then 3 again: pages 0, 1 and 2
\* were requested and the search ended.
C20_Witness ==
  /\ search = "ended"
  /\ requested = <<0, 1, 2>>
  /\ reports = <<Num(3), AbsentV, Num(3)>>

\* ========================================================== search_by_day
MaxDay == 2

\* A whole-second timestamp "<day>T<hh>:<mm>:<ss>Z"; days are numbered.
Stamp(d, hh, mm, ss) == [day |-> d, hh |-> hh, mm |-> mm, ss |-> ss]

\* The instant of a timestamp, in seconds: the order in which the search API
\* compares two timestamps.
Secs(ts) == ((ts.day * 24 + ts.hh) * 60 + ts.mm) * 60 + ts.ss

\* The field the search is split on.
Field == "created_at"

\* One entry of a body's "and" list: {key: {op: bound}}.
Clause(key, op, bound) == [key |-> key, op |-> op, bound |-> bound]

\* A search body: its "and" list, when it has one, and its other keys (sort,
\* queryContext, timeZone).
Body(hasAnd, and, rest) == [hasAnd |-> hasAnd, and |-> and, rest |-> rest]

\* The bodies the script passes: the range on the field and two filters
\* (msg_body), the range only (conv_time_body), a body without an "and"
\* list, and a body with a range on another field between the clauses.
BaseBodies(range) ==
  LET
      Equals(key) == Clause(key, "equals", Stamp(0, 0, 0, 0))
      \* start_iso and end_iso (lines 28-29)
      StartIso == Stamp(range[1], 0, 0, 0)
      EndIso == Stamp(range[2], 23, 59, 59)
  IN {Body(TRUE, <<Clause(Field, "gte", StartIso),
                   Clause(Field, "lte", EndIso),
                   Equals("auto"), Equals("direction")>>, "message"),
      Body(TRUE, <<Clause(Field, "gte", StartIso),
                   Clause(Field, "lte", EndIso)>>, "conversation_time"),
      Body(FALSE, <<>>, "conversation"),
      Body(TRUE, <<Equals("deleted"),
                   Clause(Field, "gte", StartIso),
                   Clause("updated_at", "gte", Stamp(0, 0, 0, 0)),
                   Clause(Field, "lte", EndIso)>>, "conversation")}

\* The records of the store, by the timestamp they carry in the field: the
\* first and last second of each half of each day.
Records ==
  {Stamp(d, t[1], t[2], t[3]) :
     d \in 0..MaxDay,
     t \in {<<0, 0, 0>>, <<11, 59, 59>>, <<12, 0, 0>>, <<23, 59, 59>>}}

\* base_body.get("and", [])
AndOf(body) == IF body.hasAnd THEN body.and ELSE <<>>

\* deepcopy(base_body) with body["and"] = [gte, lte, *kept clauses]
WindowBody(base, lo, hi) ==
  LET
      KeepsClause(c) == c.key # Field
  IN Body(TRUE,
          <<Clause(Field, "gte", lo), Clause(Field, "lte", hi)>>
            \o SelectSeq(AndOf(base), KeepsClause),
          base.rest)

FirstHalfStart(d) == Stamp(d, 0, 0, 0)
FirstHalfEnd(d) == Stamp(d, 11, 59, 59)
\* Mutant: the second half starts one second late.
SecondHalfStartLate(d) == Stamp(d, 12, 0, 1)
SecondHalfStart(d) == Stamp(d, 12, 0, 0)
SecondHalfEnd(d) == Stamp(d, 23, 59, 59)

\* results.extend(paginated_search(body))
Extended(res, body) ==
  LET
      \* What the search API returns for a body: the records that satisfy every
      \* range clause on the field (the records of the store pass the other
      \* filters).
      Matches(r) ==
        \A i \in 1..Len(body.and) :
          LET c == body.and[i]
          IN /\ (c.key = Field /\ c.op = "gte") => Secs(c.bound) <= Secs(r)
             /\ (c.key = Field /\ c.op = "lte") => Secs(r) <= Secs(c.bound)
  IN [r \in Records |-> res[r] + (IF Matches(r) THEN 1 ELSE 0)]

\* search_by_day(base_body, field) was called.
DaysInit ==
  /\ date_range \in (0..MaxDay) \X (0..MaxDay)
  /\ base_body \in BaseBodies(date_range)
  /\ day_start = date_range[1]
  /\ sent = <<>>
  /\ results = [r \in Records |-> 0]
  /\ dpc = "first_half"
  /\ RetryIdle
  /\ PagesIdle
  /\ user_map = {}
  /\ team_map = {}
  /\ stats = EmptyMap
  /\ swapped = EmptyMap
  /\ pc = "idle"
  /\ ev = NoEvent
  /\ n = 0
  /\ rows = EmptyMap

\* `while start <= end` is true: the first half of the day is searched.
SearchFirstHalf ==
  /\ dpc = "first_half"
  /\ day_start <= date_range[2]
  /\ LET body1 == WindowBody(base_body, FirstHalfStart(day_start),
                             FirstHalfEnd(day_start))
     IN /\ sent' = Append(sent, body1)
        /\ results' = Extended(results, body1)
  /\ dpc' = "second_half"
  /\ UNCHANGED <<date_range, base_body, day_start, retryVars, pageVars,
                 foldVars>>

\* The second half of the day is searched; start += day.
SearchSecondHalf ==
  /\ dpc = "second_half"
  /\ LET body2 == WindowBody(base_body, SecondHalfStart(day_start),
                             SecondHalfEnd(day_start))
     IN /\ sent' = Append(sent, body2)
        /\ results' = Extended(results, body2)
  /\ day_start' = day_start + 1
  /\ dpc' = "first_half"
  /\ UNCHANGED <<date_range, base_body, retryVars, pageVars, foldVars>>

\* paginated_search raises: search_by_day returns nothing.
SearchRaises ==
  /\ dpc \in {"first_half", "second_half"}
  /\ dpc = "first_half" => day_start <= date_range[2]
  /\ dpc' = "raised"
  /\ UNCHANGED <<date_range, base_body, day_start, sent, results, retryVars,
                 pageVars, foldVars>>

\* `while start <= end` is false: return results.
ReturnResults ==
  /\ dpc = "first_half"
  /\ ~(day_start <= date_range[2])
  /\ dpc' = "returned"
  /\ UNCHANGED <<date_range, base_body, day_start, sent, results, retryVars,
                 pageVars, foldVars>>

DaysNext ==
  \/ SearchFirstHalf
  \/ SearchSecondHalf
  \/ SearchRaises
  \/ ReturnResults

SpecDays == DaysInit /\ [][DaysNext]_vars

\* The inclusive window of the i-th search, in seconds.
WindowLo(i) == Secs(sent[i].and[1].bound)
WindowHi(i) == Secs(sent[i].and[2].bound)

\* The record's timestamp lies from START_DATE 00:00:00 to END_DATE 23:59:59.
InDateRange(r) ==
  /\ Secs(Stamp(date_range[1], 0, 0, 0)) <= Secs(r)
  /\ Secs(r) <= Secs(Stamp(date_range[2], 23, 59, 59))

\* C21: with START_DATE <= END_DATE, the searches of search_by_day are over
\* inclusive windows of whole seconds, twelve hours each, that start at
\* START_DATE 00:00:00, follow one another without a gap or an overlap and,
\* when the function returns, end at END_DATE 23:59:59, two per day; every
\* record is in `results` once if its timestamp is in the range and never
\* otherwise; every body searched with has exactly the two window clauses on
\* the field, then the clauses of the base body on other keys, in their
\* order, and the base body's other keys.
C21_WindowsPartitionRange ==
  (dpc # "idle" /\ date_range[1] <= date_range[2]) =>
    /\ \A i \in 1..Len(sent) :
         /\ sent[i].and[1].key = Field /\ sent[i].and[1].op = "gte"
         /\ sent[i].and[2].key = Field /\ sent[i].and[2].op = "lte"
         /\ WindowHi(i) - WindowLo(i) + 1 = 12 * 60 * 60
         /\ \A j \in 3..Len(sent[i].and) : sent[i].and[j].key # Field
         /\ SubSeq(sent[i].and, 3, Len(sent[i].and)) =
              SelectSeq(AndOf(base_body), LAMBDA c : c.key # Field)
         /\ sent[i].rest = base_body.rest
    /\ Len(sent) > 0 => WindowLo(1) = Secs(Stamp(date_range[1], 0, 0, 0))
    /\ \A i \in 1..(Len(sent) - 1) : WindowLo(i + 1) = WindowHi(i) + 1
    /\ \A r \in Records :
         /\ results[r] =
              Cardinality({i \in 1..Len(sent) :
                             WindowLo(i) <= Secs(r) /\ Secs(r) <= WindowHi(i)})
         /\ results[r] <= 1
    /\ dpc = "returned" =>
         /\ Len(sent) = 2 * (date_range[2] - date_range[1] + 1)
         /\ WindowHi(Len(sent)) = Secs(Stamp(date_range[2], 23, 59, 59))
         /\ \A r \in Records :
              results[r] = IF InDateRange(r) THEN 1 ELSE 0

\* The message search over days 0 and 1 returned after four searches: the
\* record of the last second of day 1 is in the results once, the record of
\* the first second of day 2 is not.
C21_Witness ==
  /\ dpc = "returned"
  /\ date_range = <<0, 1>>
  /\ Len(sent) = 4
  /\ base_body.rest = "message"
  /\ Len(sent[4].and) = 4
  /\ results[Stamp(1, 23, 59, 59)] = 1
  /\ results[Stamp(1, 11, 59, 59)] = 1
  /\ results[Stamp(2, 0, 0, 0)] = 0

\* ================================================================ main2.py
\* The agent-only script: its buckets and its four fold loops.
MaxEvents2 == 2

\* stats[id] of main2's defaultdict.
M2Bucket(st, id) ==
  LET
      M2DefaultStats ==
        [msgs |-> 0, conv |-> {}, cust |-> {}, conv_done |-> 0, handle_sum |-> 0,
         resp |-> <<>>, frt |-> <<>>, fr_res |-> <<>>, shortcuts |-> 0,
         fcr_hits |-> 0, fcr_total |-> 0, login |-> 0]
  IN IF id \in DOMAIN st THEN st[id] ELSE M2DefaultStats

\* The conversation id of a message, as lines 196-197 and 252 read it.
M2ConvId(m) == Or(Get(m.conversationId), Get(m.relConversation))

\* ----- Count every outbound message
\* conv_lookup holds the fetched conversations: c1 belongs to customer u1.
M2ProcessMessage(st, um, m) ==
  LET agent == Get(m.relCreatedBy)
      c_id == M2ConvId(m)
      conv_lookup == [c \in {"c1"} |-> "u1"]
      cust == Or(IF c_id \in DOMAIN conv_lookup THEN conv_lookup[c_id]
                 ELSE None,
                 Get(m.relCustomer))
      resp_bt == OrV(GetV(m.responseBusinessTime),
                     GetV(m.attr_responseBusinessTime))
  IN IF MsgDirection(m) # "out" \/ Truthy(MsgAuto(m)) THEN Folded(st)
     ELSE IF agent \notin um THEN Folded(st)
     ELSE Folded(Put(st, agent,
            [M2Bucket(st, agent) EXCEPT
               !.msgs = @ + 1,
               !.conv = IF Truthy(c_id) THEN @ \cup {c_id} ELSE @,
               !.cust = IF Truthy(c_id) /\ Truthy(cust)
                        THEN @ \cup {cust} ELSE @,
               !.resp = IF IsNumber(resp_bt) THEN Append(@, resp_bt.n) ELSE @,
               !.shortcuts = IF TruthyL(m.attr_shortcutIds)
                             THEN @ + 1 ELSE @]))

\* ----- Conversation completions / handle-time
\* A timestamp is "iso1" < "iso2", or a first-done instant "inside" or
\* "outside" the report range; dt() raises on anything else ("garbage",
\* null, a missing key), and the try block around it swallows that.
M2Parses(at) == at \in {"iso1", "iso2", "inside", "outside"}
\* The instant of a parsed timestamp, in seconds.
M2Secs(at) ==
  CASE at = "iso1" -> 0
    [] at = "iso2" -> 60
    [] at = "inside" -> 120
    [] OTHER -> 240

\* `s["handle_sum"] += h` raises on a string h; the FCR test of lines
\* 234-240 raises on a null or a string reopenCount.
M2ProcessConvDone(st, um, c) ==
  LET agent == Get(c.lastDoneById)
      s1 == [M2Bucket(st, agent) EXCEPT !.conv_done = @ + 1]
      s2 == IF IsNumber(c.handleTime)
            THEN [s1 EXCEPT !.handle_sum = @ + c.handleTime.n] ELSE s1
      counted == Put(st, agent, s2)
      fd_by == Get(c.firstDoneById)
      criteria ==
        IF Get(c.status) # "done" THEN "miss"
        ELSE IF Get(c.direction) # "in" THEN "miss"
        ELSE IF ~(CountOrZero(c.messageCount) > 0) THEN "miss"
        ELSE IF CountRaises(c.reopenCount) THEN "raise"
        ELSE IF ~(CountOrZero(c.reopenCount) <= 0) THEN "miss"
        ELSE IF Truthy(Get(c.mergedTarget)) THEN "miss"
        ELSE "hit"
      f1 == [M2Bucket(counted, fd_by) EXCEPT !.fcr_total = @ + 1]
      f2 == IF criteria = "hit" THEN [f1 EXCEPT !.fcr_hits = @ + 1] ELSE f1
      f3 == IF M2Parses(c.createdAt)
            THEN [f2 EXCEPT !.fr_res =
                    Append(@, M2Secs(c.firstDoneAt) - M2Secs(c.createdAt))]
            ELSE f2
  IN IF Truthy(c.deleted) THEN Folded(st)
     ELSE IF CountRaises(c.messageCount) THEN Aborted(st)
     ELSE IF CountOrZero(c.messageCount) <= 0 THEN Folded(st)
     ELSE IF agent \notin um THEN Folded(st)
     ELSE IF c.handleTime.t = "str" THEN Aborted(Put(st, agent, s1))
     ELSE IF ~(Truthy(c.firstDoneAt) /\ fd_by \in um) THEN Folded(counted)
     ELSE IF c.firstDoneAt # "inside" THEN Folded(counted)
     ELSE IF criteria = "raise" THEN Aborted(Put(counted, fd_by, f1))
     ELSE Folded(Put(counted, fd_by, f3))

\* ----- First response times
\* conv_msgs.sort(key = attributes.createdAt or createdAt): stable and
\* ascending in Python's string order ("garbage" < "iso1" < "iso2").
M2Sorted(msgs) ==
  LET rank(m) ==
        LET k == Or(Get(m.attr_createdAt), Get(m.createdAt))
        IN CASE k = "garbage" -> 0 [] k = "iso1" -> 1 [] k = "iso2" -> 2
             [] OTHER -> 3
      RECURSIVE insert(_, _)
      insert(x, s) ==
        IF s = <<>> THEN <<x>>
        ELSE IF rank(x) < rank(Head(s)) THEN <<x>> \o s
        ELSE <<Head(s)>> \o insert(x, Tail(s))
      RECURSIVE sorted(_)
      sorted(s) ==
        IF s = <<>> THEN <<>>
        ELSE insert(s[Len(s)], sorted(SubSeq(s, 1, Len(s) - 1)))
  IN sorted(msgs)

\* One iteration on conversation c, `messages` being the fetched messages.
\* The sort raises TypeError when it compares a None key; a subscript or a
\* parse that fails inside the try block leaves stats alone.
M2ProcessFirstResponse(st, c, messages) ==
  LET conv_msgs == SelectSeq(messages, LAMBDA m : M2ConvId(m) = c.id)
      sort_raises ==
        /\ Len(conv_msgs) >= 2
        /\ \E i \in 1..Len(conv_msgs) :
             Or(Get(conv_msgs[i].attr_createdAt),
                Get(conv_msgs[i].createdAt)) = None
      sorted == M2Sorted(conv_msgs)
      none == [missing |-> TRUE]
      first(P(_)) ==
        IF \E i \in 1..Len(sorted) : P(sorted[i])
        THEN sorted[CHOOSE i \in 1..Len(sorted) :
                      P(sorted[i]) /\ \A j \in 1..(i - 1) : ~P(sorted[j])]
        ELSE none
      inbound(m) == MsgDirection(m) = "in"
      reply(m) == MsgDirection(m) = "out" /\ ~Truthy(MsgAuto(m))
      first_cust == first(inbound)
      first_agent == first(reply)
      stamp(m) ==
        LET at == IF Truthy(Get(m.createdAt)) THEN m.createdAt
                  ELSE m.attr_createdAt
        IN IF M2Parses(at) THEN at ELSE None
      by == Get(first_agent.createdById)
  IN IF c.id = Absent THEN Aborted(st)
     ELSE IF conv_msgs = <<>> THEN Folded(st)
     ELSE IF sort_raises THEN Aborted(st)
     ELSE IF first_cust = none \/ first_agent = none THEN Folded(st)
     ELSE IF stamp(first_agent) = None \/ stamp(first_cust) = None
     THEN Folded(st)
     ELSE Folded(Put(st, by,
            [M2Bucket(st, by) EXCEPT
               !.frt = Append(@, M2Secs(stamp(first_agent))
                                  - M2Secs(stamp(first_cust)))]))

\* ----- Logged-in time
M2ProcessUserTime(st, um, ut) ==
  LET uid == Or(Get(ut.userId), Get(ut.relUser))
  IN IF uid \notin um THEN Folded(st)
     ELSE IF ~IsNumber(ut.timeTotal) THEN Folded(st)
     ELSE Folded(Put(st, uid,
            [M2Bucket(st, uid) EXCEPT !.login = @ + ut.timeTotal.n]))

\* ----- Export
\* The row `wr` of one accumulator; user_map[aid] is the agent's name.
M2Row(aid, s) ==
  [name |-> aid, msgs |-> s.msgs, conv_ct |-> Cardinality(s.conv),
   conv_done |-> s.conv_done, cust_ct |-> Cardinality(s.cust),
   avg_handle_time |->
     IfElse0(s.conv_done # 0, Ratio(s.handle_sum, s.conv_done)),
   msgs_per_conv |->
     IfElse0(Cardinality(s.conv) # 0, Ratio(s.msgs, Cardinality(s.conv))),
   msgs_per_cust |->
     IfElse0(Cardinality(s.cust) # 0, Ratio(s.msgs, Cardinality(s.cust))),
   fcr_rate |-> IfElse0(s.fcr_total # 0, Percent(s.fcr_hits, s.fcr_total)),
   avg_resp |-> IfElse0(Len(s.resp) > 0, Mean(s.resp)),
   avg_first_resp |-> IfElse0(Len(s.frt) > 0, Mean(s.frt)),
   med_first_resp |-> IfElse0(Len(s.frt) > 0, Median(s.frt)),
   avg_first_res |-> IfElse0(Len(s.fr_res) > 0, Mean(s.fr_res)),
   med_first_res |-> IfElse0(Len(s.fr_res) > 0, Median(s.fr_res)),
   login |-> Val(s.login * 100), shortcuts |-> s.shortcuts,
   shortcut_pct |-> IfElse0(s.msgs # 0, Percent(s.shortcuts, s.msgs))]

\* ----- Inputs of main2's loops
\* A message: direction, auto, relationships.createdBy.data.id, createdById,
\* conversationId and createdAt; the other keys are set by the variants.
M2Msg(dir, auto, rel, by, conv, at) ==
  [direction |-> dir, attr_direction |-> Absent, auto |-> auto,
   attr_auto |-> Absent, relCreatedBy |-> rel, createdById |-> by,
   conversationId |-> conv, relConversation |-> Absent,
   relCustomer |-> Absent, responseBusinessTime |-> AbsentV,
   attr_responseBusinessTime |-> AbsentV, attr_shortcutIds |-> AbsentList,
   createdAt |-> at, attr_createdAt |-> Absent]

M2Messages ==
  {M2Msg("out", PyFalse, "a1", "a1", "c1", "iso2"),
   [M2Msg("out", Absent, "a2", "a2", Absent, "iso2") EXCEPT
      !.relConversation = "c2", !.relCustomer = "u2",
      !.attr_responseBusinessTime = Num(30), !.attr_shortcutIds = <<"s1">>],
   [M2Msg("out", PyFalse, "a1", "a1", "c2", "iso1") EXCEPT
      !.responseBusinessTime = StrV],
   [M2Msg(Absent, PyFalse, "a1", "a1", "c1", "iso1") EXCEPT
      !.attr_direction = "out", !.attr_shortcutIds = <<>>],
   M2Msg("out", PyFalse, Unknown, Unknown, "c1", "iso2"),
   M2Msg("out", PyFalse, Absent, Absent, "c1", "iso2"),
   M2Msg("out", PyTrue, "a1", "a1", "c1", "iso2"),
   M2Msg("in", PyFalse, Absent, Absent, "c1", "iso1")}

M2ConvDones ==
  LET
      M2Conv(del, mc, by, ht, fdAt, fdBy, ro) ==
        [deleted |-> del, messageCount |-> mc, lastDoneById |-> by,
         handleTime |-> ht, firstDoneAt |-> fdAt, firstDoneById |-> fdBy,
         status |-> "done", direction |-> "in", reopenCount |-> ro,
         mergedTarget |-> Absent, createdAt |-> "iso1"]
  IN {M2Conv(Absent, Num(2), "a1", Num(3), "inside", "a1", Num(0)),
      M2Conv(PyFalse, Num(1), "a1", Num(0), "inside", "a2", AbsentV),
      M2Conv(Absent, Num(2), "a2", AbsentV, "inside", "a2", Num(1)),
      M2Conv(Absent, Num(2), "a2", Num(4), "outside", "a1", Num(0)),
      M2Conv(Absent, Num(2), "a1", Num(3), "inside", Unknown, Num(0)),
      M2Conv(Absent, Num(2), "a1", Num(3), Absent, Absent, Num(0)),
      M2Conv(Absent, Num(2), Unknown, Num(3), "inside", "a1", Num(0)),
      M2Conv(Absent, Num(2), Absent, Num(3), "inside", "a1", Num(0)),
      M2Conv(PyTrue, Num(2), "a1", Num(3), "inside", "a1", Num(0)),
      M2Conv(Absent, Num(0), "a1", Num(3), "inside", "a1", Num(0)),
      M2Conv(Absent, NoneV, "a1", Num(3), "inside", "a1", Num(0)),
      M2Conv(Absent, Num(2), "a1", StrV, "inside", "a1", Num(0)),
      M2Conv(Absent, Num(2), "a1", Num(3), "inside", "a1", NoneV),
      [M2Conv(Absent, Num(2), "a1", Num(3), "inside", "a1", Num(0)) EXCEPT
         !.createdAt = "garbage", !.mergedTarget = "c9"]}

\* The fetched messages as the first-response loop sees them: an inbound
\* message, and replies of conversation c1.
M2ThreadMessages ==
  {M2Msg("in", PyFalse, Absent, Absent, "c1", "iso1"),
   M2Msg("out", PyFalse, "a1", "a1", "c1", "iso2"),
   M2Msg("out", PyFalse, "a1", Absent, "c1", "iso2"),
   M2Msg("out", PyFalse, Unknown, Unknown, "c1", "iso1"),
   M2Msg("out", PyFalse, "a2", "a2", "c1", "garbage"),
   M2Msg("out", PyFalse, "a2", "a2", "c1", Absent),
   M2Msg("out", PyTrue, "a2", "a2", "c1", "iso2"),
   [M2Msg("out", PyFalse, "a2", "a2", "c1", Absent) EXCEPT
      !.attr_createdAt = "iso2"],
   M2Msg("out", PyFalse, "a2", "a2", "c2", "iso2")}

\* ----- The run of main2.py

M2Init ==
  /\ user_map = UserIds
  /\ team_map = {}
  /\ stats = EmptyMap
  /\ pc = "m2_messages"
  /\ ev = NoEvent
  /\ n = 0
  /\ rows = EmptyMap
  /\ swapped = EmptyMap
  /\ HttpIdle

M2Iterate(e, r) ==
  /\ n < MaxEvents2
  /\ stats' = r.stats
  /\ pc' = IF r.raised THEN "m2_aborted" ELSE pc
  /\ ev' = e
  /\ n' = n + 1
  /\ UNCHANGED <<user_map, team_map, rows, aux>>

M2CountMessages ==
  /\ pc = "m2_messages"
  /\ \E m \in M2Messages : M2Iterate(m, M2ProcessMessage(stats, user_map, m))

M2CountCompletions ==
  /\ pc = "m2_conv_done"
  /\ \E c \in M2ConvDones : M2Iterate(c, M2ProcessConvDone(stats, user_map, c))

\* conv_created holds conversation c1 or a record without an id; the
\* messages list holds at most two messages.
M2FirstResponses ==
  /\ pc = "m2_first_response"
  /\ \E c \in {[id |-> "c1"], [id |-> Absent]},
        ms \in {<<>>} \cup {<<a>> : a \in M2ThreadMessages}
                 \cup {<<a, b>> : a \in M2ThreadMessages,
                                  b \in M2ThreadMessages} :
       M2Iterate([id |-> c.id, messages |-> ms],
                 M2ProcessFirstResponse(stats, c, ms))

M2LoggedInTime ==
  LET
      \* User-time entries: userId, relationships.user.data.id, loggedIn.timeTotal.
      M2UserTimes ==
        {[userId |-> "a1", relUser |-> Absent, timeTotal |-> Num(5)],
         [userId |-> Absent, relUser |-> "a2", timeTotal |-> Num(7)],
         [userId |-> "a1", relUser |-> Absent, timeTotal |-> NoneV],
         [userId |-> Unknown, relUser |-> Absent, timeTotal |-> Num(5)],
         [userId |-> Absent, relUser |-> Absent, timeTotal |-> Num(5)]}
  IN /\ pc = "m2_logged_in"
     /\ \E ut \in M2UserTimes :
          M2Iterate(ut, M2ProcessUserTime(stats, user_map, ut))

M2EndLoop ==
  LET
      M2LoopAfter(l) ==
        CASE l = "m2_messages" -> "m2_conv_done"
          [] l = "m2_conv_done" -> "m2_first_response"
          [] l = "m2_first_response" -> "m2_logged_in"
          [] l = "m2_logged_in" -> "m2_export"
  IN /\ pc \in {"m2_messages", "m2_conv_done", "m2_first_response",
                "m2_logged_in"}
     /\ pc' = M2LoopAfter(pc)
     /\ ev' = NoEvent
     /\ UNCHANGED <<user_map, team_map, stats, n, rows, aux>>

\* user_map[aid] raises KeyError for an id the map does not hold.
M2ExportCsv ==
  /\ pc = "m2_export"
  /\ IF \E aid \in DOMAIN stats : aid \notin user_map
     THEN pc' = "m2_export_failed" /\ rows' = rows
     ELSE /\ pc' = "m2_done"
          /\ rows' = [aid \in DOMAIN stats |-> M2Row(aid, stats[aid])]
  /\ UNCHANGED <<user_map, team_map, stats, ev, n, aux>>

M2Next ==
  \/ M2CountMessages
  \/ M2CountCompletions
  \/ M2FirstResponses
  \/ M2LoggedInTime
  \/ M2EndLoop
  \/ M2ExportCsv

SpecMain2 == M2Init /\ [][M2Next]_vars

\* C22: in main2.py, once the four fold loops have run, every key of stats
\* is a key of user_map, so the export's lookup user_map[aid] succeeds for
\* every row; the first-response loop creates no accumulator for a responder
\* id that is missing or is not a known human agent.
C22_StatsKeysAreAgents ==
  /\ pc \in {"m2_export", "m2_done", "m2_export_failed"} =>
       DOMAIN stats \subseteq user_map
  /\ pc # "m2_export_failed"

\* ================================================================= main.py
\* The first script: agent_stats is a plain dict that holds one accumulator
\* per id of user_name_map (user_map here) and never gains a key; the
\* conversation-resolution pass and the first-response / first-resolution
\* pass index it by ids read from the events.
MaxEvents1 == 2

\* The result of an iteration: the map after it and the exception it raised
\* ("" when it raised none).
MainResult(st, exc) == [stats |-> st, raised |-> exc]

\* ----- 2. Conversation resolutions
\* created_ids holds the ids of the conversations created in the range;
\* ensure() prints and returns, then agent_stats[agent_id] is indexed.
MainProcessResolution(st, c) ==
  LET created_ids == {"c1"}
      agent_id == Or(Get(c.lastDoneById), Get(c.relLastDoneBy))
      handle_time == OrV(GetV(c.handleTime), GetV(c.attr_handleTime))
  IN IF ~Truthy(agent_id) THEN MainResult(st, "")
     ELSE IF agent_id \notin DOMAIN st THEN MainResult(st, "KeyError")
     ELSE MainResult([st EXCEPT ![agent_id] =
            [@ EXCEPT
               !.conversations_done = @ + 1,
               !.conv_created_done =
                  IF Get(c.id) \in created_ids THEN @ + 1 ELSE @,
               !.total_handle_time =
                  IF IsNumber(handle_time) THEN @ + handle_time.n ELSE @]],
            "")

\* ----- 3. First response & first resolution

\* conv_msgs.sort(key = attributes.createdAt or createdAt): stable and
\* ascending in Python's string order ("garbage" < "iso1" < "iso2").
MainSorted(msgs) ==
  LET rank(m) ==
        LET k == Or(Get(m.attr_createdAt), Get(m.createdAt))
        IN CASE k = "garbage" -> 0 [] k = "iso1" -> 1 [] k = "iso2" -> 2
             [] OTHER -> 3
      RECURSIVE insert(_, _)
      insert(x, s) ==
        IF s = <<>> THEN <<x>>
        ELSE IF rank(x) < rank(Head(s)) THEN <<x>> \o s
        ELSE <<Head(s)>> \o insert(x, Tail(s))
      RECURSIVE sorted(_)
      sorted(s) ==
        IF s = <<>> THEN <<>>
        ELSE insert(s[Len(s)], sorted(SubSeq(s, 1, Len(s) - 1)))
  IN sorted(msgs)

\* One iteration on created conversation c, `messages` being the fetched
\* messages.  The sort raises TypeError when it compares a None key; the two
\* try blocks turn a failed subscript or parse into frt = None and
\* frt_res = None; the indexes agent_stats[responder] and
\* agent_stats[resolver] are outside them.
MainProcessFirstResponse(st, c, messages) ==
  LET
      \* parse_time: the timestamps of the universe are "iso1" < "iso2" < "iso3";
      \* anything else ("garbage", null, a missing key) makes the try block fail.
      MainParses(at) == at \in {"iso1", "iso2", "iso3"}
      MainSecs(at) ==
        CASE at = "iso1" -> 0
          [] at = "iso2" -> 60
          [] OTHER -> 120
      direction(m) == Or(Get(m.attr_direction), Get(m.direction))
      conv_msgs ==
        SelectSeq(messages,
                  LAMBDA m : Or(Get(m.conversationId),
                                Get(m.relConversation)) = c.id)
      sort_raises ==
        /\ Len(conv_msgs) >= 2
        /\ \E i \in 1..Len(conv_msgs) :
             Or(Get(conv_msgs[i].attr_createdAt),
                Get(conv_msgs[i].createdAt)) = None
      sorted == MainSorted(conv_msgs)
      first_msg == sorted[1]
      has_reply == \E i \in 1..Len(sorted) : direction(sorted[i]) = "out"
      first_agent ==
        sorted[CHOOSE i \in 1..Len(sorted) :
                 /\ direction(sorted[i]) = "out"
                 /\ \A j \in 1..(i - 1) : direction(sorted[j]) # "out"]
      stamp(m) ==
        IF m.attributes = Absent THEN None
        ELSE LET at == IF Truthy(Get(m.attr_createdAt))
                       THEN m.attr_createdAt ELSE m.createdAt
             IN IF MainParses(at) THEN at ELSE None
      has_frt == stamp(first_agent) # None /\ stamp(first_msg) # None
      responder ==
        Or(Or(Get(first_agent.relCreatedBy), Get(first_agent.createdById)),
           Get(first_agent.ownerId))
      responded ==
        [st EXCEPT ![responder].first_response_times =
           Append(@, MainSecs(stamp(first_agent))
                      - MainSecs(stamp(first_msg)))]
      resolver == c.firstDoneById
      has_frt_res ==
        /\ Truthy(Get(c.firstDoneAt))
        /\ Truthy(Get(c.firstDoneById))
        /\ MainParses(c.firstDoneAt)
        /\ MainParses(c.createdAt)
      FirstResolution(s) ==
        IF ~has_frt_res THEN MainResult(s, "")
        ELSE IF resolver \notin DOMAIN s THEN MainResult(s, "KeyError")
        ELSE MainResult([s EXCEPT ![resolver] =
               [@ EXCEPT
                  !.first_resolution_times =
                     Append(@, MainSecs(c.firstDoneAt)
                                - MainSecs(c.createdAt)),
                  !.fcr_count =
                     IF Get(c.lastDoneAt) = Get(c.firstDoneAt)
                        /\ Get(c.lastDoneById) = resolver
                     THEN @ + 1 ELSE @]], "")
  IN IF ~Truthy(Get(c.id)) THEN MainResult(st, "")
     ELSE IF conv_msgs = <<>> THEN MainResult(st, "")
     ELSE IF sort_raises THEN MainResult(st, "TypeError")
     ELSE IF direction(first_msg) = "out" THEN MainResult(st, "")
     ELSE IF ~has_reply THEN MainResult(st, "")
     ELSE IF ~(Truthy(responder) /\ has_frt) THEN FirstResolution(st)
     ELSE IF responder \notin DOMAIN st THEN MainResult(st, "KeyError")
     ELSE FirstResolution(responded)

\* ----- Inputs of the two passes

conversations_done ==
  LET
      MainDone(id, by, rel, ht) ==
        [id |-> id, lastDoneById |-> by, relLastDoneBy |-> rel,
         handleTime |-> ht, attr_handleTime |-> AbsentV]
  IN {MainDone("c1", "a1", Absent, Num(3)),
      MainDone("c2", Absent, "a2", StrV),
      [MainDone("c2", "a2", "a1", AbsentV) EXCEPT !.attr_handleTime = Num(4)],
      MainDone(Absent, "a1", Absent, Num(0)),
      MainDone("c1", Absent, Absent, Num(3)),
      MainDone("c1", None, Absent, Num(3)),
      MainDone("c1", Unknown, Absent, Num(3)),
      MainDone("c1", Absent, Unknown, Num(3))}

MainThreadMessages ==
  LET
      \* A message: direction, whether it has an "attributes" dict, the three
      \* places the responder is read from, its conversation and its createdAt.
      MainMsg(dir, attrs, rel, by, owner, conv, at) ==
        [direction |-> dir, attr_direction |-> Absent, attributes |-> attrs,
         relCreatedBy |-> rel, createdById |-> by, ownerId |-> owner,
         conversationId |-> conv, relConversation |-> Absent,
         createdAt |-> at, attr_createdAt |-> Absent]
  IN {MainMsg("in", PyTrue, Absent, Absent, Absent, "c1", "iso1"),
      MainMsg("out", PyTrue, "a1", Absent, Absent, "c1", "iso2"),
      MainMsg("out", Absent, Absent, "a2", Absent, "c1", "iso2"),
      MainMsg("out", PyTrue, Absent, Absent, "a1", "c1", "garbage"),
      MainMsg("out", PyTrue, Absent, Absent, Absent, "c1", "iso2"),
      MainMsg("out", PyTrue, Unknown, Absent, Absent, "c1", "iso2"),
      MainMsg("out", PyTrue, "a1", Absent, Absent, "c1", Absent),
      [MainMsg(Absent, PyTrue, "a2", Absent, Absent, Absent, Absent) EXCEPT
         !.attr_direction = "out", !.relConversation = "c1",
         !.attr_createdAt = "iso2"],
      MainMsg("out", PyTrue, "a1", Absent, Absent, "c2", "iso2")}

conversations_created ==
  LET
      MainCreated(id, fdAt, fdBy, ldAt, ldBy, at) ==
        [id |-> id, firstDoneAt |-> fdAt, firstDoneById |-> fdBy,
         lastDoneAt |-> ldAt, lastDoneById |-> ldBy, createdAt |-> at]
  IN {MainCreated("c1", Absent, Absent, Absent, Absent, "iso1"),
      MainCreated("c1", "iso3", "a1", "iso3", "a1", "iso1"),
      MainCreated("c1", "iso2", "a2", "iso3", "a2", "iso1"),
      MainCreated("c1", "iso3", Unknown, "iso3", Unknown, "iso1"),
      MainCreated("c1", "garbage", Unknown, "iso3", "a1", Absent),
      MainCreated(Absent, "iso3", "a1", "iso3", "a1", "iso1")}

\* ----- The two passes

\* agent_stats after lines 288-301: one untouched accumulator per id of
\* user_name_map (no message has been counted).
MainInit ==
  LET
      MainDefaultStats ==
        [messages_sent |-> 0, unique_conversations |-> {}, unique_customers |-> {},
         conversations_done |-> 0, conv_created_done |-> 0, total_handle_time |-> 0,
         first_response_times |-> <<>>, first_resolution_times |-> <<>>,
         messages_shortcut |-> 0, fcr_count |-> 0]
  IN /\ user_map = UserIds
     /\ team_map = {}
     /\ stats = [agent_id \in UserIds |-> MainDefaultStats]
     /\ pc = "resolutions"
     /\ ev = NoEvent
     /\ n = 0
     /\ rows = EmptyMap
     /\ swapped = EmptyMap
     /\ HttpIdle

\* An iteration that raises ends the script: pc names the exception.
MainIterate(e, r) ==
  /\ n < MaxEvents1
  /\ stats' = r.stats
  /\ pc' = IF r.raised = "" THEN pc ELSE r.raised
  /\ ev' = e
  /\ n' = n + 1
  /\ UNCHANGED <<user_map, team_map, rows, aux>>

ConversationResolutions ==
  /\ pc = "resolutions"
  /\ \E c \in conversations_done :
       MainIterate([pass |-> "resolutions", c |-> c, messages |-> <<>>],
                   MainProcessResolution(stats, c))

\* The messages list holds at most two messages.
FirstResponseAndResolution ==
  /\ pc = "first_response"
  /\ \E c \in conversations_created,
        ms \in {<<>>} \cup {<<a>> : a \in MainThreadMessages}
                 \cup {<<a, b>> : a \in MainThreadMessages,
                                  b \in MainThreadMessages} :
       MainIterate([pass |-> "first_response", c |-> c, messages |-> ms],
                   MainProcessFirstResponse(stats, c, ms))

MainEndLoop ==
  LET
      MainLoopAfter(l) ==
        CASE l = "resolutions" -> "first_response"
          [] l = "first_response" -> "csv_output"
  IN /\ pc \in {"resolutions", "first_response"}
     /\ pc' = MainLoopAfter(pc)
     /\ ev' = NoEvent
     /\ UNCHANGED <<user_map, team_map, stats, n, rows, aux>>

MainNext ==
  \/ ConversationResolutions
  \/ FirstResponseAndResolution
  \/ MainEndLoop

SpecMain == MainInit /\ [][MainNext]_vars

\* C23: in main.py an event whose resolved owner id (a done conversation's
\* last-done-by, a first responder, a first-done-by resolver) is not in
\* user_name_map is dropped and the run goes on: every index agent_stats[id]
\* of the conversation-resolution and first-response / first-resolution
\* passes uses a key of agent_stats, so none of them raises KeyError.
C23_UnknownOwnerDropped == pc # "KeyError"

\* ------------------------------------------------------------------ C24
\* A percentage cell that was computed and lies in 0..100 (in hundredths).
IsPercentage(cell) == cell.ok /\ 0 <= cell.v /\ cell.v <= 10000

\* C24: in part_000, in every state that any sequence of folds reaches and
\* for every accumulator, fcr_hits <= fcr_total and shortcuts <= msgs, so
\* the first contact resolution rate and the percent of messages sent with
\* shortcuts, as the export computes them and as it wrote them, lie between
\* 0 and 100 inclusive.
C24_PercentagesInRange ==
  /\ \A E \in DOMAIN stats :
       /\ 0 <= stats[E].fcr_hits /\ stats[E].fcr_hits <= stats[E].fcr_total
       /\ 0 <= stats[E].shortcuts /\ stats[E].shortcuts <= stats[E].msgs
       /\ IsPercentage(Row(E, stats[E]).fcr_rate)
       /\ IsPercentage(Row(E, stats[E]).shortcut_pct)
  /\ \A E \in DOMAIN rows :
       IsPercentage(rows[E].fcr_rate) /\ IsPercentage(rows[E].shortcut_pct)

\* The export wrote a row whose two percentages come from counted events: a
\* message sent with a shortcut and a first contact resolution.
C24_Witness ==
  /\ pc = "done"
  /\ \E E \in DOMAIN rows :
       /\ stats[E].msgs = 1 /\ stats[E].shortcuts = 1
       /\ stats[E].fcr_total = 1 /\ stats[E].fcr_hits = 1
       /\ rows[E].fcr_rate = Val(10000)
       /\ rows[E].shortcut_pct = Val(10000)
====
